---- MODULE Spec2Model ----
(***************************************************************************)
(* Model of the Excel report engine of sf-reporting-excel-lambda:          *)
(* ReportConfiguration (pricing detection), ColumnCalculator (column       *)
(* layout and offset formula) and ExcelReportService.generateReport (the   *)
(* retry / dataset-size state machine).                                    *)
(*                                                                         *)
(* Conventions                                                             *)
(*  - a JS string is a sequence of one-character strings;                  *)
(*  - a JS value that may be undefined/null is a record with a tag t;      *)
(*  - a fraction in [0,1] (priceThreshold) is kept in percent, so that     *)
(*    V/T >= threshold is the integer comparison V*100 >= threshold*T.     *)
(***************************************************************************)
EXTENDS Integers, Sequences, FiniteSets, TLC

VARIABLES
    \* ---- ReportConfiguration / ExcelReportService object state
    config,          \* the ReportConfiguration instance (this.config)
    managerWb,       \* workbook owned by this.worksheetManager
    populatorWb,     \* workbook reached through this.productsPopulator
    headersWb,       \* workbook whose sheets this.scvHeadersGenerator captured
    \* ---- environment
    options,         \* the options object the service was created with
    s3,              \* the input documents in the bucket
    workbooks,       \* contents of every xl.Workbook created so far
    tempFiles,       \* files in the temp_images directory
    localFile,       \* the .xlsx written by workbook.write (or NoFile)
    uploaded,        \* the object put under report/output (or NoFile)
    \* ---- generateReport activation record
    pc,              \* position inside generateReport
    retryAttempt,    \* let retryAttempt
    products,        \* let products (fetched)
    users,           \* const users (fetched): number of user records
    outcome,         \* "running" | "resolved" | "rejected"
    error,           \* the error generateReport rejected with
    caught,          \* the error the catch clause is handling
    \* ---- history (not read by the program)
    attempts,        \* number of loop iterations started
    thrown,          \* the errors thrown so far, with the mode at the throw
    proactive,       \* the proactive trigger fired in this run
    \* ---- scratch state of the pure-function specifications
    ret,             \* last value returned by the function under test
    arg,             \* last argument tuple it was applied to
    \* ---- the job tracking around a run (handler and DynamoJobService)
    table,           \* the items of the jobs table, in the order they were put
    sequenceCounters, \* this.sequenceCounters of the DynamoJobService
    invoked,         \* the payloads of the asynchronous Lambda invocations sent
    progress,        \* the calls made to the injected progressCallback
    logged,          \* history: the createProgressLogEntry calls made so far
    functionName     \* process.env.AWS_LAMBDA_FUNCTION_NAME is set

\* what a step of the report service leaves alone
jobVars == << table, sequenceCounters, invoked, progress, logged,
             functionName >>

vars == << config, managerWb, populatorWb, headersWb, options, s3, workbooks,
           tempFiles, localFile, uploaded, pc, retryAttempt, products, users,
           outcome, error, caught, attempts, thrown, proactive, ret, arg, jobVars >>

\* what a call of a configuration or layout function leaves alone
runVars == << managerWb, populatorWb, headersWb, options, s3, workbooks,
              tempFiles, localFile, uploaded, retryAttempt, products, users,
              outcome, error, caught, attempts, thrown, proactive, jobVars >>

\* new Map(): no key; a map is the set of its entries
NoCounters == {}

\* no job is tracked: an empty table, a new DynamoJobService, nothing invoked
\* and no progress reported, in a deployed function
IdleJobs ==
    /\ table = << >>
    /\ sequenceCounters = NoCounters
    /\ invoked = << >>
    /\ progress = << >>
    /\ logged = << >>
    /\ functionName = TRUE

-----------------------------------------------------------------------------
(* Bounds of the model *)

MaxProducts == 1     \* longest product list of the orchestrator runs
MaxUsers == 2        \* largest number of user records
MaxPriceList == 2    \* longest product list given to detectHasPrices
MaxLayoutProducts == 3 \* largest product count of a layout descriptor

-----------------------------------------------------------------------------
(* JS values *)

Undefined == [t |-> "undefined", s |-> << >>]
Null == [t |-> "null", s |-> << >>]
Str(s) == [t |-> "string", s |-> s]

\* undefined, true and false where a value is one of the three; records, as
\* every other value a call returns or throws
JsUndefined == [js |-> "undefined"]
JsTrue == [js |-> "true"]
JsFalse == [js |-> "false"]
JsBool(b) == IF b THEN JsTrue ELSE JsFalse

Digits == {"0", "5"}
DigitVal(c) == IF c = "5" THEN 5 ELSE 0

NaN == [nan |-> TRUE, n |-> 0]
Num(n) == [nan |-> FALSE, n |-> n]

\* value of the longest prefix of s made of digits (acc = value so far,
\* seen = a digit was consumed)
RECURSIVE ParseDigits(_, _, _)
ParseDigits(s, acc, seen) ==
    IF s = << >> \/ Head(s) \notin Digits
    THEN IF seen THEN Num(acc) ELSE NaN
    ELSE ParseDigits(Tail(s), 10 * acc + DigitVal(Head(s)), TRUE)

\* parseFloat(v): undefined and null are converted to "undefined"/"null",
\* which hold no number; a string is read as an optional sign then digits,
\* and whatever follows is ignored.
parseFloat(v) ==
    IF v.t # "string" THEN NaN
    ELSE IF v.s # << >> /\ Head(v.s) = "-"
         THEN LET r == ParseDigits(Tail(v.s), 0, FALSE)
              IN  IF r.nan THEN NaN ELSE Num(0 - r.n)
         ELSE ParseDigits(v.s, 0, FALSE)

-----------------------------------------------------------------------------
(* ReportConfiguration *)

DefaultLargeDatasetThreshold == 1000000
DefaultPriceThreshold == 50       \* 0.5, in percent

Has(o, k) == k \in o.present

\* constructor(idProject, options), for a non-empty idProject
NewReportConfiguration(idProject, o) ==
    [ idProject |-> idProject,
      largeDataSet |-> IF Has(o, "largeDataSet") THEN o.largeDataSet ELSE FALSE,
      isAoi |-> IF Has(o, "isAoi") THEN o.isAoi ELSE FALSE,
      isFinal |-> IF Has(o, "isFinal") THEN o.isFinal ELSE TRUE,
      hasFindability |->
          IF Has(o, "hasFindability") THEN o.hasFindability ELSE TRUE,
      largeDatasetThreshold |->
          IF Has(o, "largeDatasetThreshold") /\ o.largeDatasetThreshold # 0
          THEN o.largeDatasetThreshold ELSE DefaultLargeDatasetThreshold,
      priceThreshold |->
          IF Has(o, "priceThreshold") /\ o.priceThreshold # 0
          THEN o.priceThreshold ELSE DefaultPriceThreshold,
      hasPricesExplicit |-> Has(o, "hasPrices"),
      hasPricesValue |->
          IF Has(o, "hasPrices") THEN JsBool(o.hasPrices) ELSE JsUndefined ]

PartnerLen == 3
\* getPartner(): idProject.slice(0, 3)
Slice3(s) == SubSeq(s, 1, IF Len(s) < PartnerLen THEN Len(s) ELSE PartnerLen)
getPartner(c) == Slice3(c.idProject)

Niq == << "n", "i", "q" >>

\* get hasPrices()
hasPrices(c) == c.hasPricesValue

\* set hasPrices(value)
setHasPrices(c, value) ==
    [c EXCEPT !.hasPricesValue = value, !.hasPricesExplicit = TRUE]

\* the loop of detectHasPrices: the number of products with price > 0
RECURSIVE productsWithValidPrices(_)
productsWithValidPrices(ps) ==
    IF ps = << >> THEN 0
    ELSE LET raw == Head(ps).price
             price == parseFloat(raw)
             valid == /\ raw.t \notin {"null", "undefined"}
                      /\ ~price.nan
                      /\ price.n # 0
                      /\ price.n > 0
         IN  (IF valid THEN 1 ELSE 0) + productsWithValidPrices(Tail(ps))

NoProducts == [t |-> "undefined", list |-> << >>]
ProductList(ps) == [t |-> "array", list |-> ps]

detectHasPricesMutStrict(c, pl) ==
    IF pl.t # "array" \/ Len(pl.list) = 0 THEN FALSE
    ELSE productsWithValidPrices(pl.list) * 100
             > c.priceThreshold * Len(pl.list)

\* detectHasPrices(products): products is undefined/null or an array
detectHasPrices(c, pl) ==
    IF pl.t # "array" \/ Len(pl.list) = 0 THEN FALSE
    ELSE productsWithValidPrices(pl.list) * 100
             >= c.priceThreshold * Len(pl.list)

autoConfigurePricingMutAlwaysDetect(c, pl) ==
    LET detected == JsBool(detectHasPrices(c, pl))
    IN  [ret |-> detected, config |-> [c EXCEPT !.hasPricesValue = detected]]

\* autoConfigurePricing(products): the returned value and the configuration
\* it leaves behind
autoConfigurePricing(c, pl) ==
    IF c.hasPricesExplicit
    THEN [ret |-> c.hasPricesValue, config |-> c]
    ELSE LET detected == JsBool(detectHasPrices(c, pl))
         IN  [ret |-> detected,
              config |-> [c EXCEPT !.hasPricesValue = detected]]

-----------------------------------------------------------------------------
(* ColumnCalculator *)

CommonHeads == << "Survey ID", "SF ID", "Cell ID" >>

\* a product record as read from the products document
Product(idProject, price) == [idProject |-> idProject, price |-> price]

salesColumnsMutFirstIndexed(ps, numberCommonHeads, hasPricesJs) ==
    LET partner == Slice3(ps[1].idProject)
        nBase == 2 + (IF partner = Niq THEN 2 ELSE 0)
                   + (IF hasPricesJs = JsTrue THEN 1 ELSE 0)
        icn0 == << "Purchased-Product Index:", "Quantity-Product Index:",
                   "Sequence Index:", "Dwell Time Index:" >>
        indexedColumnsNames ==
            IF hasPricesJs = JsTrue
            THEN Append(icn0, "Price-Product Index:") ELSE icn0
    IN  [ tc |-> numberCommonHeads + nBase + Len(ps) * Len(indexedColumnsNames),
          fxc |-> numberCommonHeads + nBase,
          bc |-> [i \in 1..nBase |-> "base"],
          icn |-> indexedColumnsNames ]

salesColumns(ps, numberCommonHeads, hasPricesJs) ==
    LET partner == Slice3(ps[1].idProject)
        bc0 == << "Total Items Purchased", "Total Basket Items" >>
        bc1 == IF partner = Niq
               THEN bc0 \o << "Avg Basket Price", "Avg Products Purchased" >>
               ELSE bc0
        icn0 == << "Purchased-Product Index:", "Quantity-Product Index:",
                   "Sequence Index:", "Dwell Time Index:" >>
        \* if (hasPrices): undefined and false are falsy
        priced == hasPricesJs = JsTrue
        baseColumns == IF priced THEN Append(bc1, "Total Spend") ELSE bc1
        indexedColumnsNames ==
            IF priced THEN Append(icn0, "Price-Product Index:") ELSE icn0
    IN  [ tc |-> numberCommonHeads + Len(baseColumns)
                     + Len(ps) * Len(indexedColumnsNames),
          fxc |-> numberCommonHeads + Len(baseColumns) + 1,
          bc |-> baseColumns,
          icn |-> indexedColumnsNames ]

clicksColumns(ps, numberCommonHeads) ==
    LET partner == Slice3(ps[1].idProject)
        bc0 == << "First Selection", "Time First Selection",
                  "Total Products Selected" >>
        baseColumns == IF partner = Niq
                       THEN Append(bc0, "Avg Interactions Per Product")
                       ELSE bc0
        indexedColumns == << "Selected-Product Index:", "Dwell-Time Index:" >>
    IN  [ tc |-> numberCommonHeads + Len(baseColumns)
                     + Len(ps) * Len(indexedColumns),
          fxc |-> numberCommonHeads + Len(baseColumns) + 1,
          bc |-> baseColumns,
          icn |-> indexedColumns ]

viewsColumns(numberOfProducts, numberCommonHeads) ==
    [ tc |-> numberCommonHeads + numberOfProducts * 2,
      fxc |-> numberCommonHeads + 1,
      bc |-> << >>,
      icn |-> << "Viewed-Product Index:", "Time-Viewed Index:" >> ]

funnelColumns(numberOfProducts, numberCommonHeads) ==
    LET baseColumns == << "Total Conversion Rate" >>
        indexedColumns == << "Conversion Funnel Index:" >>
    IN  [ tc |-> numberCommonHeads + Len(baseColumns)
                     + numberOfProducts * Len(indexedColumns),
          fxc |-> numberCommonHeads + Len(baseColumns) + 1,
          bc |-> baseColumns,
          icn |-> indexedColumns ]

nonPurchaseColumns(numberOfProducts, numberCommonHeads) ==
    LET baseColumns == << "Total Not Purchased" >>
        indexedColumns == << "Product-Not-Purchased Index:", "Sequence Index:" >>
    IN  [ tc |-> numberCommonHeads + Len(baseColumns)
                     + numberOfProducts * Len(indexedColumns),
          fxc |-> numberCommonHeads + Len(baseColumns) + 1,
          bc |-> baseColumns,
          icn |-> indexedColumns ]

getColumnIndexMutNoStride(currentProductIndex, columns, nIndexColumn) ==
    currentProductIndex + columns.fxc + nIndexColumn

getColumnIndex(currentProductIndex, columns, nIndexColumn) ==
    currentProductIndex * Len(columns.icn) + columns.fxc + nIndexColumn

Layouts == {"sales", "clicks", "views", "funnel", "nonPurchase"}

\* the descriptor the code builds for a section sheet
LayoutColumns(layout, ps, hasPricesJs) ==
    CASE layout = "sales" -> salesColumns(ps, Len(CommonHeads), hasPricesJs)
      [] layout = "clicks" -> clicksColumns(ps, Len(CommonHeads))
      [] layout = "views" -> viewsColumns(Len(ps), Len(CommonHeads))
      [] layout = "funnel" -> funnelColumns(Len(ps), Len(CommonHeads))
      [] OTHER -> nonPurchaseColumns(Len(ps), Len(CommonHeads))

-----------------------------------------------------------------------------
(* The bucket, the workbooks and the files *)

NoError == [name |-> "none", at |-> "none", attempt |-> 0]
Err(name, at, attempt) == [name |-> name, at |-> at, attempt |-> attempt]

getJsonFromS3MutSwallow(bucket, key, attempt) ==
    [ok |-> TRUE, data |-> bucket[key].body, err |-> NoError]

\* getJsonFromS3(key): GetObject fails for a missing key, JSON.parse for a
\* body that is not JSON; either error is logged and rethrown as it is
getJsonFromS3(bucket, key, attempt) ==
    LET doc == bucket[key]
    IN  CASE doc.status = "ok" -> [ok |-> TRUE, data |-> doc.body, err |-> NoError]
          [] doc.status = "missing" ->
                [ok |-> FALSE, data |-> doc.body,
                 err |-> Err("NoSuchKey", key, attempt)]
          [] OTHER ->
                [ok |-> FALSE, data |-> doc.body,
                 err |-> Err("SyntaxError", key, attempt)]

startsWithNiq(idProject) ==
    Len(idProject) >= Len(Niq) /\ SubSeq(idProject, 1, Len(Niq)) = Niq

createWorksheetsMutAlwaysSix(c) ==
    {"products", "sales", "clicks", "views", "timers", "findability"}

\* WorksheetManager.createWorksheets(): the sheet set of a new workbook
createWorksheets(c) ==
    {"products", "sales", "clicks", "views", "timers", "findability"}
        \cup (IF startsWithNiq(c.idProject) THEN {"funnel", "nonPurchase"} ELSE {})

\* new WorksheetManager(config): an empty workbook with its sheets
NewWorksheetManager(c) == [sheets |-> createWorksheets(c), items |-> {}]

\* something written to a sheet: kind is "commonHead", "header", "prefill",
\* "identity", "value", "image" or the head of a Products List column; at is
\* the product row of a Products List entry (0 elsewhere); large is
\* config.largeDataSet when it was written
Item(sheet, kind, at, large) ==
    [sheet |-> sheet, kind |-> kind, at |-> at, large |-> large]

SameCell(i, j) == i.sheet = j.sheet /\ i.kind = j.kind /\ i.at = j.at

\* cell(...).string()/number() replaces what the cell held; addImage adds
Write(items, new) ==
    {i \in items : i.kind = "image" \/ ~ \E j \in new : SameCell(i, j)} \cup new

NoFile == [exists |-> FALSE, items |-> {}, wb |-> 0, large |-> FALSE]
File(items, wb, large) ==
    [exists |-> TRUE, items |-> items, wb |-> wb, large |-> large]

MaxRetries == 1
CellsPerPair == 5

shouldUseLargeDatasetModeMutAtLeast(c, nUsers, ps) ==
    nUsers * Len(ps) * CellsPerPair >= c.largeDatasetThreshold

\* shouldUseLargeDatasetMode(users, products)
shouldUseLargeDatasetMode(c, nUsers, ps) ==
    nUsers * Len(ps) * CellsPerPair > c.largeDatasetThreshold

-----------------------------------------------------------------------------
(* Inputs of a run *)

NoOptions ==
    [ present |-> {}, largeDataSet |-> FALSE, isAoi |-> FALSE, isFinal |-> FALSE,
      hasFindability |-> FALSE, largeDatasetThreshold |-> 0,
      priceThreshold |-> 0, hasPrices |-> FALSE ]

\* an options object: a field that is not present keeps the filler of NoOptions
OptionsWith(present, largeDataSet, hasFindability, threshold, price, hasP) ==
    [ NoOptions EXCEPT
        !.present = present,
        !.largeDataSet = IF "largeDataSet" \in present THEN largeDataSet ELSE FALSE,
        !.hasFindability =
            IF "hasFindability" \in present THEN hasFindability ELSE FALSE,
        !.largeDatasetThreshold =
            IF "largeDatasetThreshold" \in present THEN threshold ELSE 0,
        !.priceThreshold = IF "priceThreshold" \in present THEN price ELSE 0,
        !.hasPrices = IF "hasPrices" \in present THEN hasP ELSE FALSE ]

NiqProject == << "n", "i", "q", "7" >>
AcmeProject == << "a", "c", "m", "e" >>
IdProjects == {NiqProject, AcmeProject}

RunThresholds == {5}
RunPrices == {Str(<< "0" >>), Str(<< "5" >>)}

SeqsUpTo(S, n) == UNION {[1..k -> S] : k \in 0..n}

\* the options of the runs: each of the four is left out or given
RunOptions ==
    { OptionsWith(present, TRUE, FALSE, th, 0, TRUE) :
        present \in SUBSET {"largeDataSet", "hasFindability",
                            "largeDatasetThreshold", "hasPrices"},
        th \in RunThresholds }

DocStatus == {"ok", "missing", "unparsable"}

\* a document of the bucket; one that cannot be read has no content
Docs(bodies, empty) ==
    {[status |-> "ok", body |-> b] : b \in bodies}
        \cup {[status |-> st, body |-> empty] : st \in DocStatus \ {"ok"}}

Buckets(idProject) ==
    [ products : Docs(SeqsUpTo({Product(idProject, p) : p \in RunPrices},
                               MaxProducts), << >>),
      scv : Docs(0..MaxUsers, 0),
      findability : {[status |-> st, body |-> 0] : st \in {"ok", "missing"}} ]

-----------------------------------------------------------------------------
(* ExcelReportService: construction *)

Init ==
    \E idProject \in IdProjects, o \in RunOptions :
      \E b \in Buckets(idProject) :
        /\ options = o
        /\ config = NewReportConfiguration(idProject, o)
        /\ s3 = b
        /\ workbooks = << NewWorksheetManager(NewReportConfiguration(idProject, o)) >>
        /\ managerWb = 1
        /\ populatorWb = 1
        /\ headersWb = 1
        /\ tempFiles = {}
        /\ localFile = NoFile
        /\ uploaded = NoFile
        /\ pc = "loop"
        /\ retryAttempt = 0
        /\ products = << >>
        /\ users = 0
        /\ outcome = "running"
        /\ error = NoError
        /\ caught = NoError
        /\ attempts = 0
        /\ thrown = << >>
        /\ proactive = FALSE
        /\ ret = JsUndefined
        /\ arg = << >>
        /\ IdleJobs

-----------------------------------------------------------------------------
(* ExcelReportService.generateReport *)

\* an exception leaves the try block for the catch clause
Throw(e) ==
    /\ caught' = e
    /\ thrown' = Append(thrown, [err |-> e, large |-> config.largeDataSet])
    /\ pc' = "catch"

NoThrow(next) ==
    /\ pc' = next
    /\ UNCHANGED << caught, thrown >>

\* ImageProcessor.cleanupTempImages(): unlink every file of temp_images
cleanupTempImages(files) == {}

WriteTo(wb, new) ==
    workbooks' = [workbooks EXCEPT ![wb].items = Write(@, new)]

BeginAttemptMutResetMode ==
    /\ pc = "loop"
    /\ retryAttempt <= MaxRetries
    /\ config' = [config EXCEPT !.largeDataSet = retryAttempt > 0]
    /\ attempts' = attempts + 1
    /\ products' = << >>
    /\ users' = 0
    /\ pc' = "fetchProducts"
    /\ UNCHANGED << managerWb, populatorWb, headersWb, options, s3, workbooks,
                    tempFiles, localFile, uploaded, retryAttempt, outcome,
                    error, caught, thrown, proactive, ret, arg, jobVars >>

\* while (retryAttempt <= maxRetries) { try { if (retryAttempt > 0) ...
BeginAttempt ==
    /\ pc = "loop"
    /\ retryAttempt <= MaxRetries
    /\ config' = IF retryAttempt > 0
                 THEN [config EXCEPT !.largeDataSet = TRUE] ELSE config
    /\ attempts' = attempts + 1
    /\ products' = << >>
    /\ users' = 0
    /\ pc' = "fetchProducts"
    /\ UNCHANGED << managerWb, populatorWb, headersWb, options, s3, workbooks,
                    tempFiles, localFile, uploaded, retryAttempt, outcome,
                    error, caught, thrown, proactive, ret, arg, jobVars >>

\* let products = await this.s3Service.getJsonFromS3(locations.products)
FetchProducts ==
    /\ pc = "fetchProducts"
    /\ LET r == getJsonFromS3(s3, "products", attempts)
       IN  IF r.ok
           THEN /\ products' = r.data
                /\ NoThrow("pricing")
           ELSE /\ Throw(r.err)
                /\ UNCHANGED products
    /\ UNCHANGED << config, managerWb, populatorWb, headersWb, options, s3,
                    workbooks, tempFiles, localFile, uploaded, retryAttempt,
                    users, outcome, error, attempts, proactive, ret, arg, jobVars >>

\* this.config.autoConfigurePricing(products)
AutoConfigurePricing ==
    /\ pc = "pricing"
    /\ LET r == autoConfigurePricing(config, ProductList(products))
       IN  /\ config' = r.config
           /\ ret' = r.ret
    /\ pc' = "fetchUsers"
    /\ UNCHANGED << managerWb, populatorWb, headersWb, options, s3, workbooks,
                    tempFiles, localFile, uploaded, retryAttempt, products,
                    users, outcome, error, caught, attempts, thrown, proactive,
                    arg, jobVars >>

\* const users = await this.s3Service.getJsonFromS3(locations.scv)
FetchUsers ==
    /\ pc = "fetchUsers"
    /\ LET r == getJsonFromS3(s3, "scv", attempts)
       IN  IF r.ok
           THEN /\ users' = r.data
                /\ NoThrow("proactive")
           ELSE /\ Throw(r.err)
                /\ UNCHANGED users
    /\ UNCHANGED << config, managerWb, populatorWb, headersWb, options, s3,
                    workbooks, tempFiles, localFile, uploaded, retryAttempt,
                    products, outcome, error, attempts, proactive, ret, arg, jobVars >>

resetForRetryMutKeepHeaders ==
    /\ config' = [config EXCEPT !.largeDataSet = TRUE]
    /\ workbooks' = Append(workbooks, NewWorksheetManager(config'))
    /\ managerWb' = Len(workbooks) + 1
    /\ populatorWb' = Len(workbooks) + 1
    /\ headersWb' = headersWb
    /\ tempFiles' = cleanupTempImages(tempFiles)

\* resetForRetry(): large mode, a new workbook for every component, no images
resetForRetry ==
    /\ config' = [config EXCEPT !.largeDataSet = TRUE]
    /\ workbooks' = Append(workbooks, NewWorksheetManager(config'))
    /\ managerWb' = Len(workbooks) + 1
    /\ populatorWb' = Len(workbooks) + 1
    /\ headersWb' = Len(workbooks) + 1
    /\ tempFiles' = cleanupTempImages(tempFiles)

\* if (!this.config.largeDataSet && this.shouldUseLargeDatasetMode(...))
ProactiveCheck ==
    /\ pc = "proactive"
    /\ IF ~config.largeDataSet /\ shouldUseLargeDatasetMode(config, users, products)
       THEN /\ resetForRetry
            /\ proactive' = TRUE
       ELSE UNCHANGED << config, workbooks, managerWb, populatorWb, headersWb,
                         tempFiles, proactive >>
    /\ pc' = "populateProducts"
    /\ UNCHANGED << options, s3, localFile, uploaded, retryAttempt, products,
                    users, outcome, error, caught, attempts, thrown, ret, arg, jobVars >>

-----------------------------------------------------------------------------
(* ExcelReportService.generateExcelFile *)

\* the statements of generateExcelFile where a failure is injected (a range
\* or size limit of the workbook library, a malformed record, a failed
\* write): before anything is written, after the headers, and at the write
GenerationSteps == {"populateProducts", "assign", "writeFile"}

GenerationThrows ==
    /\ pc \in GenerationSteps
    /\ Throw(Err("Error", pc, attempts))
    /\ UNCHANGED << config, managerWb, populatorWb, headersWb, options, s3,
                    workbooks, tempFiles, localFile, uploaded, retryAttempt,
                    products, users, outcome, error, attempts, proactive, ret,
                    arg, jobVars >>

\* this.productsHeaders: the heads of the Products List columns
ProductsHeaders == << "Image", "Cells", "Product ID", "Index", "Name" >>

\* ProductsPopulator.populate: the header row, the cells of columns 2..5 of
\* every product row, and the thumbnail of every product whose image was
\* added (ok)
populateItems(ps, ok, large) ==
    {Item("products", "header", 0, large)}
        \cup {Item("products", ProductsHeaders[col], j, large) :
                 col \in 2..Len(ProductsHeaders), j \in 1..Len(ps)}
        \cup {Item("products", "image", j, large) : j \in ok}

PopulateProductsMutImageFatal ==
    /\ pc = "populateProducts"
    /\ \E ok \in SUBSET (1..Len(products)) :
         \E left \in SUBSET (1..Len(products)) :
           /\ ok \subseteq left
           /\ tempFiles' = tempFiles \cup left
           /\ IF ok = 1..Len(products)
              THEN /\ WriteTo(managerWb,
                              populateItems(products, ok, config.largeDataSet))
                   /\ NoThrow("headers")
              ELSE /\ WriteTo(managerWb,
                              {Item("products", "header", 0, config.largeDataSet)})
                   /\ Throw(Err("ImageError", "populateProducts", attempts))
    /\ UNCHANGED << config, managerWb, populatorWb, headersWb, options, s3,
                    localFile, uploaded, retryAttempt, products, users, outcome,
                    error, attempts, proactive, ret, arg, jobVars >>

\* await this.productsPopulator.populate(products, worksheets.products): for
\* each product row downloadImage either resolves with the local path and the
\* image is added (ok), or it returns null after a failed request, or its
\* writer fails and the rejection is caught by the populator; a file is left
\* in temp_images for every image added and for any image whose write or
\* insertion failed part-way (left)
PopulateProducts ==
    /\ pc = "populateProducts"
    /\ \E ok \in SUBSET (1..Len(products)) :
         \E left \in SUBSET (1..Len(products)) :
           /\ ok \subseteq left
           /\ tempFiles' = tempFiles \cup left
           /\ WriteTo(managerWb, populateItems(products, ok, config.largeDataSet))
    /\ NoThrow("headers")
    /\ UNCHANGED << config, managerWb, populatorWb, headersWb, options, s3,
                    localFile, uploaded, retryAttempt, products, users, outcome,
                    error, attempts, proactive, ret, arg, jobVars >>

ScvSheets == {"sales", "clicks", "views"}

commonHeadItems(large) == {Item(sh, "commonHead", 0, large) : sh \in ScvSheets}

\* ScvHeadersGenerator.generate for a non-empty product list: the header row
\* of Sales, Clicks and Views and, unless largeDataSet, the zero pre-fill of
\* rows 2..numberOfUsers+1
generateItems(c, ps, numberOfUsers) ==
    commonHeadItems(c.largeDataSet)
        \cup {Item(sh, "header", 0, c.largeDataSet) : sh \in ScvSheets}
        \cup (IF ~c.largeDataSet /\ numberOfUsers > 0
              THEN {Item(sh, "prefill", 0, c.largeDataSet) : sh \in ScvSheets}
              ELSE {})

\* this.scvHeadersGenerator.generate(products, numberOfUsers); with no
\* product, salesColumns reads products[0].idProject of undefined and throws
\* after the common heads were written
GenerateHeaders ==
    /\ pc = "headers"
    /\ IF Len(products) = 0
       THEN /\ WriteTo(headersWb, commonHeadItems(config.largeDataSet))
            /\ Throw(Err("TypeError", "headers", attempts))
       ELSE /\ WriteTo(headersWb, generateItems(config, products, users))
            /\ NoThrow("assign")
    /\ UNCHANGED << config, managerWb, populatorWb, headersWb, options, s3,
                    tempFiles, localFile, uploaded, retryAttempt, products,
                    users, outcome, error, attempts, proactive, ret, arg, jobVars >>

\* assignScvValues: per user the identity columns of the three sheets, the
\* clicks and views values and, unless AOI, the sales values
assignItems(c, numberOfUsers) ==
    IF numberOfUsers = 0 THEN {}
    ELSE {Item(sh, "identity", 0, c.largeDataSet) : sh \in ScvSheets}
            \cup {Item(sh, "value", 0, c.largeDataSet) :
                    sh \in (IF c.isAoi THEN ScvSheets \ {"sales"} ELSE ScvSheets)}

\* this.assignScvValues(users, products)
AssignScvValues ==
    /\ pc = "assign"
    /\ WriteTo(managerWb, assignItems(config, users))
    /\ NoThrow("timers")
    /\ UNCHANGED << config, managerWb, populatorWb, headersWb, options, s3,
                    tempFiles, localFile, uploaded, retryAttempt, products,
                    users, outcome, error, attempts, proactive, ret, arg, jobVars >>

sheetItems(sh, numberOfUsers, large) ==
    {Item(sh, "commonHead", 0, large), Item(sh, "header", 0, large)}
        \cup (IF numberOfUsers = 0 THEN {}
              ELSE {Item(sh, "identity", 0, large), Item(sh, "value", 0, large)})

\* this.populateStateTimers(users)
PopulateStateTimers ==
    /\ pc = "timers"
    /\ WriteTo(managerWb, sheetItems("timers", users, config.largeDataSet))
    /\ NoThrow("findability")
    /\ UNCHANGED << config, managerWb, populatorWb, headersWb, options, s3,
                    tempFiles, localFile, uploaded, retryAttempt, products,
                    users, outcome, error, attempts, proactive, ret, arg, jobVars >>

HandleFindabilityMutRethrow ==
    /\ pc = "findability"
    /\ LET r == getJsonFromS3(s3, "findability", attempts)
       IN  IF ~config.hasFindability
           THEN UNCHANGED << config, workbooks >> /\ NoThrow("funnel")
           ELSE IF r.ok
           THEN /\ WriteTo(managerWb,
                           sheetItems("findability", 1, config.largeDataSet))
                /\ UNCHANGED config
                /\ NoThrow("funnel")
           ELSE /\ UNCHANGED << config, workbooks >>
                /\ Throw(r.err)
    /\ UNCHANGED << managerWb, populatorWb, headersWb, options, s3, tempFiles,
                    localFile, uploaded, retryAttempt, products, users, outcome,
                    error, attempts, proactive, ret, arg, jobVars >>

\* if (this.config.hasFindability) await this.handleFindability(): a failed
\* fetch is absorbed and turns findability off
HandleFindability ==
    /\ pc = "findability"
    /\ IF ~config.hasFindability
       THEN UNCHANGED << config, workbooks >>
       ELSE LET r == getJsonFromS3(s3, "findability", attempts)
            IN  IF r.ok
                THEN /\ WriteTo(managerWb,
                                sheetItems("findability", 1, config.largeDataSet))
                     /\ UNCHANGED config
                ELSE /\ config' = [config EXCEPT !.hasFindability = FALSE]
                     /\ UNCHANGED workbooks
    /\ NoThrow("funnel")
    /\ UNCHANGED << managerWb, populatorWb, headersWb, options, s3, tempFiles,
                    localFile, uploaded, retryAttempt, products, users, outcome,
                    error, attempts, proactive, ret, arg, jobVars >>

\* if (idProject.startsWith('niq')) this.populateFunnelAndNonPurchase(...)
PopulateFunnelAndNonPurchase ==
    /\ pc = "funnel"
    /\ IF startsWithNiq(config.idProject)
       THEN WriteTo(managerWb,
                    sheetItems("funnel", users, config.largeDataSet)
                        \cup sheetItems("nonPurchase", users, config.largeDataSet))
       ELSE UNCHANGED workbooks
    /\ NoThrow("writeFile")
    /\ UNCHANGED << config, managerWb, populatorWb, headersWb, options, s3,
                    tempFiles, localFile, uploaded, retryAttempt, products,
                    users, outcome, error, attempts, proactive, ret, arg, jobVars >>

\* await this.worksheetManager.writeFile(filePath)
WriteFile ==
    /\ pc = "writeFile"
    /\ localFile' = File(workbooks[managerWb].items, managerWb, config.largeDataSet)
    /\ NoThrow("upload")
    /\ UNCHANGED << config, managerWb, populatorWb, headersWb, options, s3,
                    workbooks, tempFiles, uploaded, retryAttempt, products,
                    users, outcome, error, attempts, proactive, ret, arg, jobVars >>

-----------------------------------------------------------------------------
(* Upload, return and catch *)

\* uploadFileToS3 succeeds: the object is put and the local file unlinked
UploadFileToS3 ==
    /\ pc = "upload"
    /\ uploaded' = localFile
    /\ localFile' = NoFile
    /\ NoThrow("finish")
    /\ UNCHANGED << config, managerWb, populatorWb, headersWb, options, s3,
                    workbooks, tempFiles, retryAttempt, products, users,
                    outcome, error, attempts, proactive, ret, arg, jobVars >>

\* uploadFileToS3 fails: PutObject is refused, or the object is put and the
\* signing of its URL fails; the error is logged and rethrown
UploadFails ==
    /\ pc = "upload"
    /\ \/ /\ UNCHANGED uploaded
          /\ Throw(Err("PutObjectError", "upload", attempts))
       \/ /\ uploaded' = localFile
          /\ Throw(Err("SignError", "upload", attempts))
    /\ UNCHANGED << config, managerWb, populatorWb, headersWb, options, s3,
                    workbooks, tempFiles, localFile, retryAttempt, products,
                    users, outcome, error, attempts, proactive, ret, arg, jobVars >>

\* this.imageProcessor.cleanupTempImages(); return { success: true, ... }
Finish ==
    /\ pc = "finish"
    /\ tempFiles' = cleanupTempImages(tempFiles)
    /\ outcome' = "resolved"
    /\ pc' = "done"
    /\ UNCHANGED << config, managerWb, populatorWb, headersWb, options, s3,
                    workbooks, localFile, uploaded, retryAttempt, products,
                    users, error, caught, attempts, thrown, proactive, ret, arg, jobVars >>

CatchMutNoRetry ==
    /\ pc = "catch"
    /\ tempFiles' = cleanupTempImages(tempFiles)
    /\ outcome' = "rejected"
    /\ error' = caught
    /\ caught' = NoError
    /\ pc' = "done"
    /\ UNCHANGED << config, managerWb, populatorWb, headersWb, options, s3,
                    workbooks, localFile, uploaded, retryAttempt, products,
                    users, attempts, thrown, proactive, ret, arg, jobVars >>

CatchMutNoCleanupOnRetry ==
    /\ pc = "catch"
    /\ IF retryAttempt < MaxRetries /\ ~config.largeDataSet
       THEN /\ retryAttempt' = retryAttempt + 1
            /\ pc' = "loop"
            /\ UNCHANGED << tempFiles, outcome, error >>
       ELSE /\ tempFiles' = cleanupTempImages(tempFiles)
            /\ outcome' = "rejected"
            /\ error' = caught
            /\ pc' = "done"
            /\ UNCHANGED retryAttempt
    /\ caught' = NoError
    /\ UNCHANGED << config, managerWb, populatorWb, headersWb, options, s3,
                    workbooks, localFile, uploaded, products, users,
                    attempts, thrown, proactive, ret, arg, jobVars >>

CatchMutRetryInLarge ==
    /\ pc = "catch"
    /\ IF retryAttempt < MaxRetries
       THEN /\ retryAttempt' = retryAttempt + 1
            /\ tempFiles' = cleanupTempImages(tempFiles)
            /\ pc' = "loop"
            /\ UNCHANGED << outcome, error >>
       ELSE /\ tempFiles' = cleanupTempImages(tempFiles)
            /\ outcome' = "rejected"
            /\ error' = caught
            /\ pc' = "done"
            /\ UNCHANGED retryAttempt
    /\ caught' = NoError
    /\ UNCHANGED << config, managerWb, populatorWb, headersWb, options, s3,
                    workbooks, localFile, uploaded, products, users,
                    attempts, thrown, proactive, ret, arg, jobVars >>

\* catch (error): retry once while still in standard mode, else rethrow
Catch ==
    /\ pc = "catch"
    /\ IF retryAttempt < MaxRetries /\ ~config.largeDataSet
       THEN /\ retryAttempt' = retryAttempt + 1
            /\ tempFiles' = cleanupTempImages(tempFiles)
            /\ pc' = "loop"
            /\ UNCHANGED << outcome, error >>
       ELSE /\ tempFiles' = cleanupTempImages(tempFiles)
            /\ outcome' = "rejected"
            /\ error' = caught
            /\ pc' = "done"
            /\ UNCHANGED retryAttempt
    /\ caught' = NoError
    /\ UNCHANGED << config, managerWb, populatorWb, headersWb, options, s3,
                    workbooks, localFile, uploaded, products, users,
                    attempts, thrown, proactive, ret, arg, jobVars >>

Next ==
    \/ BeginAttempt
    \/ FetchProducts
    \/ AutoConfigurePricing
    \/ FetchUsers
    \/ ProactiveCheck
    \/ GenerationThrows
    \/ PopulateProducts
    \/ GenerateHeaders
    \/ AssignScvValues
    \/ PopulateStateTimers
    \/ HandleFindability
    \/ PopulateFunnelAndNonPurchase
    \/ WriteFile
    \/ UploadFileToS3
    \/ UploadFails
    \/ Finish
    \/ Catch

Spec == Init /\ [][Next]_vars

-----------------------------------------------------------------------------
(* Claims about generateReport, checked under Spec *)

\* the dataset-size mode the configuration was constructed with
ConfiguredLarge == NewReportConfiguration(config.idProject, options).largeDataSet

ThrownAt(step) == \E i \in 1..Len(thrown) : thrown[i].err.at = step

\* C1: an attempt that throws while the mode is still Standard is followed by
\* a switch to LargeDataset and exactly one retry; when the retry throws too,
\* generateReport rejects with the retry's error; no run makes more than two
\* attempts.
C1_RetryOnce ==
    /\ attempts <= 2
    /\ Len(thrown) <= attempts
    /\ attempts = 2 =>
         /\ config.largeDataSet
         /\ Len(thrown) >= 1
         /\ ~thrown[1].large
    /\ pc = "done" =>
         /\ (Len(thrown) >= 1 /\ ~thrown[1].large) => attempts = 2
         /\ Len(thrown) = 2 =>
              /\ outcome = "rejected"
              /\ error = thrown[2].err
              /\ error.attempt = 2

C1_Witness ==
    /\ pc = "done"
    /\ attempts = 2
    /\ Len(thrown) = 2
    /\ ~thrown[1].large
    /\ outcome = "rejected"

\* C2: after a switch from Standard to LargeDataset (proactive or reactive)
\* the document that is written and uploaded holds nothing that was written
\* before the switch, i.e. while the mode was still Standard.
C2_RebuiltAfterSwitch ==
    \A f \in {localFile, uploaded} :
        (f.exists /\ f.large /\ ~ConfiguredLarge) =>
            \A i \in f.items : i.large

\* C3: at the proactive check a run in Standard mode switches to LargeDataset
\* exactly when users * products * 5 > largeDatasetThreshold, and no sheet
\* has been written by then.
C3_ProactiveIff ==
    /\ []((pc = "proactive" /\ ~config.largeDataSet) =>
            \A w \in 1..Len(workbooks) : workbooks[w].items = {})
    /\ [][(pc = "proactive" /\ ~config.largeDataSet) =>
            (config'.largeDataSet <=>
                users * Len(products) * 5 > config.largeDatasetThreshold)]_vars

C3_Witness ==
    /\ pc = "populateProducts"
    /\ proactive
    /\ config.largeDataSet
    /\ ~ConfiguredLarge
    /\ users * Len(products) * 5 > config.largeDatasetThreshold

\* C4: the mode never goes back from LargeDataset to Standard (so it changes
\* at most once), and as long as neither trigger has fired it is the
\* configured mode.
C4_ModeMonotone ==
    /\ [][config.largeDataSet => config'.largeDataSet]_vars
    /\ []((~proactive /\ thrown = << >>) => config.largeDataSet = ConfiguredLarge)

C4_Witness ==
    /\ pc = "done"
    /\ config.largeDataSet
    /\ ~ConfiguredLarge
    /\ outcome = "resolved"

\* C5: whenever an attempt has ended (the next attempt is about to start, or
\* generateReport has returned or thrown) no temporary image file is left.
C5_TempImagesPurged ==
    pc \in {"loop", "done"} => tempFiles = {}

\* an attempt that downloaded an image has failed and the retry is about to
\* start
C5_Witness ==
    /\ pc = "loop"
    /\ attempts = 1
    /\ tempFiles = {}
    /\ \E i \in workbooks[managerWb].items : i.kind = "image"

\* C6: a failed upload is fatal: generateReport rejects with the upload
\* error, and the temporary files are purged.
C6_UploadFailureFatal ==
    (pc = "done" /\ ThrownAt("upload")) =>
        /\ outcome = "rejected"
        /\ error.at = "upload"
        /\ tempFiles = {}

DocErrorName(status) == IF status = "missing" THEN "NoSuchKey" ELSE "SyntaxError"

\* C7: when the products or the scv document is missing or unparsable, no
\* document is ever written or uploaded and generateReport rejects with the
\* error of the fetch of that document.
C7_RequiredInputFatal ==
    (s3.products.status # "ok" \/ s3.scv.status # "ok") =>
        /\ ~localFile.exists
        /\ ~uploaded.exists
        /\ pc = "done" =>
             /\ outcome = "rejected"
             /\ error =
                  IF s3.products.status # "ok"
                  THEN Err(DocErrorName(s3.products.status), "products", attempts)
                  ELSE Err(DocErrorName(s3.scv.status), "scv", attempts)

C7_Witness ==
    /\ pc = "done"
    /\ s3.products.status = "ok"
    /\ s3.scv.status = "unparsable"
    /\ attempts = 2
    /\ outcome = "rejected"

\* the step-boundary checkpoints of a run, in order
Checkpoints == << "fetch-complete", "pricing-resolved", "headers-written",
                 "per-user-pass-complete", "file-written", "upload-complete" >>

\* C21: a run that resolves at its first attempt has called the injected
\* progress callback once at each checkpoint, in the order fetch-complete,
\* pricing-resolved, headers-written, per-user-pass-complete, file-written,
\* upload-complete.
C21_ProgressAtCheckpoints ==
    (pc = "done" /\ outcome = "resolved" /\ attempts = 1)
        => progress = Checkpoints

\* C28: an attempt that throws while the run is in LargeDataset mode,
\* configured so or switched proactively within that attempt, is not retried:
\* when the first throw happens in LargeDataset mode exactly one attempt is
\* made and generateReport rejects with that error.
C28_NoRetryInLargeMode ==
    (thrown # << >> /\ thrown[1].large) =>
        /\ attempts = 1
        /\ Len(thrown) = 1
        /\ retryAttempt = 0
        /\ pc \in {"catch", "done"}
        /\ pc = "done" =>
             /\ outcome = "rejected"
             /\ error = thrown[1].err

\* a Standard run switched proactively, then threw, and rejected at once
C28_Witness ==
    /\ pc = "done"
    /\ ~ConfiguredLarge
    /\ proactive
    /\ Len(thrown) = 1
    /\ thrown[1].large
    /\ attempts = 1
    /\ outcome = "rejected"
    /\ error = thrown[1].err


\* the steps of an attempt after handleFindability
AfterFindability == {"funnel", "writeFile", "upload", "finish"}

FindabilityFetchFails == ~getJsonFromS3(s3, "findability", attempts).ok

\* C19: when findability is enabled and the fetch of the findability document
\* fails, handleFindability throws nothing: it writes nothing, turns
\* config.hasFindability off and generateExcelFile goes on to the funnel
\* sheets and the file write; findability stays off for the rest of the run,
\* and no run ever fails with the error of that fetch.
C19_FindabilityAbsorbed ==
    /\ [][(pc = "findability" /\ config.hasFindability /\ FindabilityFetchFails)
            => /\ pc' = "funnel"
               /\ ~config'.hasFindability
               /\ thrown' = thrown
               /\ outcome' = "running"
               /\ workbooks' = workbooks]_vars
    /\ [][~config.hasFindability => ~config'.hasFindability]_vars
    /\ []((FindabilityFetchFails /\ pc \in AfterFindability)
            => ~config.hasFindability)
    /\ [](~ThrownAt("findability") /\ error.at # "findability")

\* a run constructed with findability on whose findability document is
\* missing has uploaded its file and resolved, with findability off
C19_Witness ==
    /\ pc = "done"
    /\ outcome = "resolved"
    /\ s3.findability.status = "missing"
    /\ NewReportConfiguration(config.idProject, options).hasFindability
    /\ ~config.hasFindability
    /\ uploaded.exists
    /\ \A i \in uploaded.items : i.sheet # "findability"
    /\ thrown = << >>

\* the steps of generateExcelFile after the products populator
AfterPopulate == {"headers", "assign", "timers", "findability", "funnel",
                  "writeFile"}

OnProducts(kind, j) ==
    \E i \in workbooks[managerWb].items :
        i.sheet = "products" /\ i.kind = kind /\ i.at = j

SixSheets == {"products", "sales", "clicks", "views", "timers", "findability"}

\* C16: nothing is ever written to a sheet its workbook does not have: a
\* workbook has its sheets from its creation on, the Funnel and NotPurchased
\* sheets are among them exactly when the project id starts with 'niq', and
\* only then is anything written to them.
C16_SheetsExistBeforeWrites ==
    \A w \in 1..Len(workbooks) :
        /\ \A i \in workbooks[w].items : i.sheet \in workbooks[w].sheets
        /\ SixSheets \subseteq workbooks[w].sheets
        /\ workbooks[w].sheets \subseteq SixSheets \cup {"funnel", "nonPurchase"}
        /\ \A sh \in {"funnel", "nonPurchase"} :
             sh \in workbooks[w].sheets <=>
                 (Len(config.idProject) >= 3
                    /\ SubSeq(config.idProject, 1, 3) = << "n", "i", "q" >>)
        /\ (\E i \in workbooks[w].items : i.sheet \in {"funnel", "nonPurchase"})
              => (Len(config.idProject) >= 3
                    /\ SubSeq(config.idProject, 1, 3) = << "n", "i", "q" >>)

\* a niq run has switched proactively and filled the two sheets of its new
\* workbook
C16_Witness ==
    /\ pc = "done"
    /\ outcome = "resolved"
    /\ proactive
    /\ managerWb = 2
    /\ \E i \in workbooks[2].items : i.sheet = "funnel"
    /\ \E i \in workbooks[2].items : i.sheet = "nonPurchase"

-----------------------------------------------------------------------------
(* Specification of the pricing functions of ReportConfiguration *)

\* the state of the service object while generateReport is not running
IdleRun ==
    /\ s3 = [products |-> [status |-> "missing", body |-> << >>],
             scv |-> [status |-> "missing", body |-> 0],
             findability |-> [status |-> "missing", body |-> 0]]
    /\ workbooks = << NewWorksheetManager(config) >>
    /\ managerWb = 1
    /\ populatorWb = 1
    /\ headersWb = 1
    /\ tempFiles = {}
    /\ localFile = NoFile
    /\ uploaded = NoFile
    /\ pc = "idle"
    /\ retryAttempt = 0
    /\ products = << >>
    /\ users = 0
    /\ outcome = "running"
    /\ error = NoError
    /\ caught = NoError
    /\ attempts = 0
    /\ thrown = << >>
    /\ proactive = FALSE

\* prices as they come in the products document
PriceTokens ==
    { Null, Undefined, Str(<< >>), Str(<< "0" >>), Str(<< "5" >>),
      Str(<< "-", "5" >>), Str(<< "-", "0" >>), Str(<< "x" >>),
      Str(<< "5", "x" >>), Str(<< "0", "5" >>) }

PriceThresholds == {0, 25, 50, 100}     \* percent

PriceLists ==
    {NoProducts}
        \cup {ProductList(ps) :
                ps \in SeqsUpTo({Product(AcmeProject, p) : p \in PriceTokens},
                                MaxPriceList)}

PricingOptions ==
    { OptionsWith(present, FALSE, FALSE, 0, th, hp) :
        present \in SUBSET {"priceThreshold", "hasPrices"},
        th \in PriceThresholds, hp \in BOOLEAN }

InitPricing ==
    \E o \in PricingOptions :
        /\ options = o
        /\ config = NewReportConfiguration(AcmeProject, o)
        /\ IdleRun
        /\ IdleJobs
        /\ ret = JsUndefined
        /\ arg = [op |-> "new", pl |-> NoProducts,
                  before |-> NewReportConfiguration(AcmeProject, o)]

\* config.detectHasPrices(products), on a configuration as constructed or
\* as the setter left it
CallDetectHasPrices ==
    /\ pc = "idle"
    /\ \E pl \in PriceLists :
        /\ ret' = JsBool(detectHasPrices(config, pl))
        /\ arg' = [op |-> "detectHasPrices", pl |-> pl, before |-> config]
    /\ pc' = "returned"
    /\ UNCHANGED config
    /\ UNCHANGED runVars

\* config.autoConfigurePricing(products)
CallAutoConfigurePricing ==
    /\ pc = "idle"
    /\ \E pl \in PriceLists :
        /\ ret' = autoConfigurePricing(config, pl).ret
        /\ config' = autoConfigurePricing(config, pl).config
        /\ arg' = [op |-> "autoConfigurePricing", pl |-> pl, before |-> config]
    /\ pc' = "returned"
    /\ UNCHANGED runVars

\* config.hasPrices = value
CallSetHasPrices ==
    /\ pc = "idle"
    /\ \E value \in BOOLEAN :
        /\ config' = setHasPrices(config, JsBool(value))
        /\ ret' = JsUndefined
        /\ arg' = [op |-> "setHasPrices", pl |-> NoProducts, before |-> config]
    /\ UNCHANGED pc
    /\ UNCHANGED runVars

NextPricing ==
    \/ CallDetectHasPrices
    \/ CallAutoConfigurePricing
    \/ CallSetHasPrices

SpecPricing == InitPricing /\ [][NextPricing]_vars

\* V of the claim: the products whose price parses to a number above 0
ValidPrices(ps) ==
    Cardinality({i \in 1..Len(ps) :
                    /\ ~parseFloat(ps[i].price).nan
                    /\ parseFloat(ps[i].price).n > 0})

\* C8: for a non-empty list of T products of which V have a price that parses
\* to a number above 0, detectHasPrices returns true iff V/T >= priceThreshold
\* (equality included); for an empty or missing list it returns false.
C8_DetectIffRatio ==
    arg.op = "detectHasPrices" =>
        ret = JsBool(/\ arg.pl.t = "array"
                     /\ Len(arg.pl.list) > 0
                     /\ ValidPrices(arg.pl.list) * 100
                            >= arg.before.priceThreshold * Len(arg.pl.list))

\* the ratio is exactly the threshold, with some but not all prices valid
C8_Witness ==
    /\ arg.op = "detectHasPrices"
    /\ arg.pl.t = "array"
    /\ Len(arg.pl.list) > 1
    /\ ValidPrices(arg.pl.list) < Len(arg.pl.list)
    /\ ValidPrices(arg.pl.list) * 100 = arg.before.priceThreshold * Len(arg.pl.list)
    /\ ret = JsTrue

\* C9: autoConfigurePricing returns the explicit pricing value unchanged
\* (set at construction or through the setter) whatever the products are;
\* otherwise it returns detectHasPrices(products) and config.hasPrices yields
\* that value afterwards.
C9_AutoConfigure ==
    arg.op = "autoConfigurePricing" =>
        IF arg.before.hasPricesExplicit
        THEN /\ ret = hasPrices(arg.before)
             /\ config = arg.before
        ELSE /\ ret = JsBool(detectHasPrices(arg.before, arg.pl))
             /\ hasPrices(config) = ret

\* an explicit value that detection on the given products contradicts
C9_Witness ==
    /\ arg.op = "autoConfigurePricing"
    /\ arg.before.hasPricesExplicit
    /\ ret = JsFalse
    /\ detectHasPrices(arg.before, arg.pl)

-----------------------------------------------------------------------------
(* Specification of ColumnCalculator *)

PricingModes == {JsUndefined, JsTrue, JsFalse}

NoCall == [p |-> 0 - 1, k |-> 0 - 1, col |-> 0]

InitColumns ==
    \E layout \in Layouts, n \in 1..MaxLayoutProducts,
       idProject \in IdProjects, hp \in PricingModes :
        /\ options = NoOptions
        /\ config = NewReportConfiguration(idProject, NoOptions)
        /\ IdleRun
        /\ IdleJobs
        /\ arg = [op |-> layout, n |-> n, hasPrices |-> hp,
                  columns |->
                      LayoutColumns(layout,
                                    [i \in 1..n |-> Product(idProject, Str(<< "5" >>))],
                                    hp)]
        /\ ret = NoCall

\* ColumnCalculator.getColumnIndex(p, columns, k) for a product and a template
CallGetColumnIndex ==
    \E p \in 0..(arg.n - 1), k \in 0..(Len(arg.columns.icn) - 1) :
        /\ ret' = [p |-> p, k |-> k, col |-> getColumnIndex(p, arg.columns, k)]
        /\ UNCHANGED << config, pc, arg >>
        /\ UNCHANGED runVars

NextColumns == CallGetColumnIndex

SpecColumns == InitColumns /\ [][NextColumns]_vars

IndexPairs(n, columns) == (0..(n - 1)) \X (0..(Len(columns.icn) - 1))

\* C10: for a descriptor built from N products and M templates getColumnIndex
\* maps the pairs (0..N-1) x (0..M-1) one-to-one onto the columns
\* firstIndexedColumn..totalColumns.
C10_ColumnBijection ==
    LET c == arg.columns
        pairs == IndexPairs(arg.n, c)
    IN  /\ \A pr \in pairs : getColumnIndex(pr[1], c, pr[2]) \in c.fxc..c.tc
        /\ \A col \in c.fxc..c.tc :
              Cardinality({pr \in pairs : getColumnIndex(pr[1], c, pr[2]) = col}) = 1
        /\ ret # NoCall => ret.col \in c.fxc..c.tc

\* the last template of the last of several products lands on totalColumns
C10_Witness ==
    /\ arg.n > 1
    /\ Len(arg.columns.icn) > 1
    /\ ret.p = arg.n - 1
    /\ ret.k = Len(arg.columns.icn) - 1
    /\ ret.col = arg.columns.tc

\* C11: for each of the five layouts, every product count N >= 1, partner
\* variant and pricing mode, the descriptor has totalColumns = commonHeadCount
\* + number of base columns + N * number of indexed templates, and
\* totalColumns - firstIndexedColumn + 1 = N * number of indexed templates.
C11_DescriptorCounts ==
    LET c == arg.columns
    IN  /\ arg.n >= 1
        /\ c.tc = Len(CommonHeads) + Len(c.bc) + arg.n * Len(c.icn)
        /\ c.tc - c.fxc + 1 = arg.n * Len(c.icn)

\* the widest layout: niq sales with pricing, five base columns and five
\* templates for each of several products
C11_Witness ==
    /\ arg.op = "sales"
    /\ arg.n > 1
    /\ Len(arg.columns.bc) = 5
    /\ Len(arg.columns.icn) = 5
    /\ arg.columns.fxc = 9
    /\ arg.columns.tc = 8 + 5 * arg.n
    /\ ret # NoCall

-----------------------------------------------------------------------------
(* Cell contents of the section sheets *)

RECURSIVE GCD(_, _)
GCD(a, b) == IF b = 0 THEN a ELSE GCD(b, a % b)

\* a JS number that is not NaN, as a fraction n/d in lowest terms (d > 0)
Rat(n, d) ==
    LET g == GCD(IF n < 0 THEN 0 - n ELSE n, d)
    IN  [n |-> n \div g, d |-> d \div g]
Whole(n) == Rat(n, 1)
RatGt(a, b) == a.n * b.d > b.n * a.d

\* what a cell holds after .string(), .number() or .formula()
StrCell(s) == [k |-> "string", v |-> s]
NumCell(r) == [k |-> "number", v |-> r]
FormulaCell(f) == [k |-> "formula", v |-> f]

\* the formula `${a}${row}/${b}${row}`
Quotient(a, b, row) == [num |-> << a, row >>, den |-> << b, row >>]

\* a string value: a text followed by a number (0: the text alone)
HeadText(template, index) == [text |-> template, index |-> index]
Text(s) == HeadText(s, 0)

\* why a cell is written: by is "commonHead", "base", "header", "prefill",
\* "identity", "event" or "total"; p and t are the 0-based product index and
\* template of an indexed header or event value (-1 otherwise); name is the
\* head of the base column a total is meant for, or the field of the event
\* the value comes from
Src(by, p, t) == [by |-> by, p |-> p, t |-> t, name |-> ""]
Ev(p, t, what) == [by |-> "event", p |-> p, t |-> t, name |-> what]
Named(by, name) == [by |-> by, p |-> 0 - 1, t |-> 0 - 1, name |-> name]
Plain(by) == Named(by, "")

\* one worksheet.cell(row, col).<setter>(v)
W(sheet, row, col, v, src) ==
    [sheet |-> sheet, row |-> row, col |-> col, row2 |-> row, col2 |-> col,
     v |-> v, src |-> src]

\* worksheet.cell(r1, c1, r2, c2).<setter>(v): one call that sets every cell
\* of the block, none when the block is empty
Block(sheet, r1, c1, r2, c2, v, src) ==
    IF r2 < r1 \/ c2 < c1 THEN << >>
    ELSE << [sheet |-> sheet, row |-> r1, col |-> c1, row2 |-> r2, col2 |-> c2,
             v |-> v, src |-> src] >>

RECURSIVE Concat(_)
Concat(ss) == IF ss = << >> THEN << >> ELSE Head(ss) \o Concat(Tail(ss))

\* the write w sets the cell (row, col) of the sheet
Covers(w, sheet, row, col) ==
    /\ w.sheet = sheet
    /\ w.row <= row /\ row <= w.row2
    /\ w.col <= col /\ col <= w.col2

\* a sheet as the sequence of the writes made to it: a cell holds what the
\* last write to its position put there, and nothing if there was none
Blank == [k |-> "blank", v |-> Whole(0)]

CellAt(log, sheet, row, col) ==
    LET hits == {i \in 1..Len(log) : Covers(log[i], sheet, row, col)}
    IN  IF hits = {} THEN Blank
        ELSE log[CHOOSE i \in hits : \A k \in hits : k <= i].v

-----------------------------------------------------------------------------
(* WorksheetStyler and ScvHeadersGenerator, cell by cell *)

assignIndexColumnsMutNextProduct(sheet, columns, currentProductIndex) ==
    [j \in 1..Len(columns.icn) |->
        W(sheet, 1,
          getColumnIndex(currentProductIndex + 1, columns, j - 1),
          StrCell(HeadText(columns.icn[j], currentProductIndex + 1)),
          Src("header", currentProductIndex, j - 1))]

\* WorksheetStyler.assignIndexColumns(worksheet, columns, currentProductIndex)
assignIndexColumns(sheet, columns, currentProductIndex) ==
    [j \in 1..Len(columns.icn) |->
        W(sheet, 1,
          getColumnIndex(currentProductIndex, columns, j - 1),
          StrCell(HeadText(columns.icn[j], currentProductIndex + 1)),
          Src("header", currentProductIndex, j - 1))]

\* the common heads in row 1 of each of the given sheets
commonHeadWrites(sheets) ==
    Concat([i \in 1..Len(CommonHeads) |->
              [k \in 1..Len(sheets) |->
                  W(sheets[k], 1, i, StrCell(Text(CommonHeads[i])),
                    Plain("commonHead"))]])

\* the base heads of a sheet, from column chl + 1
baseHeadWrites(sheet, columns) ==
    [i \in 1..Len(columns.bc) |->
        W(sheet, 1, Len(CommonHeads) + i, StrCell(Text(columns.bc[i])),
          Named("base", columns.bc[i]))]

prefillMutOnes(c, sheet, columns, numberOfUsers) ==
    IF ~c.largeDataSet
    THEN Block(sheet, 2, columns.fxc, numberOfUsers + 1, columns.tc,
               NumCell(Whole(1)), Plain("prefill"))
    ELSE << >>

\* if (!this.config.largeDataSet)
\*     sheet.cell(2, fxc, numberOfUsers + 1, tc).number(0)
prefill(c, sheet, columns, numberOfUsers) ==
    IF ~c.largeDataSet
    THEN Block(sheet, 2, columns.fxc, numberOfUsers + 1, columns.tc,
               NumCell(Whole(0)), Plain("prefill"))
    ELSE << >>

\* ScvHeadersGenerator.generate(products, numberOfUsers), products not empty:
\* the writes in the order the code makes them
generate(c, ps, numberOfUsers) ==
    LET chl == Len(CommonHeads)
        sc == salesColumns(ps, chl, hasPrices(c))
        cc == clicksColumns(ps, chl)
        vc == viewsColumns(Len(ps), chl)
    IN  commonHeadWrites(<< "sales", "clicks", "views" >>)
            \o baseHeadWrites("sales", sc)
            \o prefill(c, "sales", sc, numberOfUsers)
            \o baseHeadWrites("clicks", cc)
            \o prefill(c, "clicks", cc, numberOfUsers)
            \o prefill(c, "views", vc, numberOfUsers)
            \o Concat([i \in 1..Len(ps) |->
                         assignIndexColumns("sales", sc, i - 1)
                             \o assignIndexColumns("clicks", cc, i - 1)
                             \o assignIndexColumns("views", vc, i - 1)])

-----------------------------------------------------------------------------
(* The records of the scv document *)

\* the products of a sheet run carry the idProduct the sale events refer to
SheetProduct(idProduct, idProject, price) ==
    [idProduct |-> idProduct, idProject |-> idProject, price |-> price]

SaleEvent(idProduct, index, quantity, sequence, dwellTime) ==
    [idProduct |-> idProduct, index |-> index, quantity |-> quantity,
     sequence |-> sequence, dwellTime |-> dwellTime]

ClickEvent(index, time, count, dwellTime) ==
    [index |-> index, time |-> time, count |-> count, dwellTime |-> dwellTime]

ViewEvent(index, timer) == [index |-> index, timer |-> timer]

FunnelEvent(index, conversion) == [index |-> index, conversion |-> conversion]

NonPurchaseEvent(index) == [index |-> index]

\* user.funnels / user.notPurchased: left out of the record, or an array
NoList == [t |-> "undefined", list |-> << >>]
List(l) == [t |-> "array", list |-> l]

User(id, sales, clicks, views, funnels, notPurchased) ==
    [idSurvey |-> "survey", idMaster |-> id, idCell |-> "cell",
     sales |-> sales, clicks |-> clicks, views |-> views,
     funnels |-> funnels, notPurchased |-> notPurchased]

\* parseFloat(v) || 0
parseFloatOr0(v) == IF parseFloat(v).nan THEN 0 ELSE parseFloat(v).n

RECURSIVE SeqSum(_)
SeqSum(ns) == IF ns = << >> THEN 0 ELSE Head(ns) + SeqSum(Tail(ns))

\* sheets[j].cell(row, 1..3).string(user.idSurvey / idMaster / idCell)
identityWrites(sheets, user, row) ==
    Concat([j \in 1..Len(sheets) |->
        << W(sheets[j], row, 1, StrCell(Text(user.idSurvey)), Plain("identity")),
           W(sheets[j], row, 2, StrCell(Text(user.idMaster)), Plain("identity")),
           W(sheets[j], row, 3, StrCell(Text(user.idCell)), Plain("identity")) >>])

-----------------------------------------------------------------------------
(* ExcelReportService.assignScvValues, cell by cell *)

\* products.find((p) => p.idProduct === sale.idProduct)?.price || 0, kept in
\* sale.price as a number and read back with parseFloat(sale.price) || 0
salePrice(ps, sale) ==
    LET found == {i \in 1..Len(ps) : ps[i].idProduct = sale.idProduct}
    IN  IF found = {} THEN 0
        ELSE LET raw == ps[CHOOSE i \in found : \A k \in found : i <= k].price
             IN  IF raw.t # "string" \/ raw.s = << >> THEN 0
                 ELSE parseFloatOr0(raw)

saleDwellTimeMutZero(sale) ==
    IF sale.dwellTime.t \notin {"undefined", "null"}
          /\ ~parseFloat(sale.dwellTime).nan
    THEN parseFloat(sale.dwellTime).n
    ELSE 0

\* the dwell time of a sale, -1 when it is missing or not a number
saleDwellTime(sale) ==
    IF sale.dwellTime.t \notin {"undefined", "null"}
          /\ ~parseFloat(sale.dwellTime).nan
    THEN parseFloat(sale.dwellTime).n
    ELSE 0 - 1

\* the cells of one sale event
saleEventWrites(c, ps, sc, sale, row) ==
    LET p == sale.index - 1
        column == getColumnIndex(p, sc, 0)
    IN  << W("sales", row, column, NumCell(Whole(1)), Ev(p, 0, "purchased")),
           W("sales", row, column + 1,
             NumCell(Whole(parseFloatOr0(sale.quantity))), Ev(p, 1, "quantity")),
           W("sales", row, column + 2,
             NumCell(Whole(parseFloatOr0(sale.sequence))), Ev(p, 2, "sequence")),
           W("sales", row, column + 3,
             NumCell(Whole(saleDwellTime(sale))), Ev(p, 3, "dwellTime")) >>
        \o (IF hasPrices(c) = JsTrue
            THEN << W("sales", row, column + 4,
                      NumCell(Whole(salePrice(ps, sale))), Ev(p, 4, "price")) >>
            ELSE << >>)

sTotalItems(user) ==
    SeqSum([j \in 1..Len(user.sales) |-> parseFloatOr0(user.sales[j].quantity)])

sTotalCartItems(user) == Len(user.sales)

sTotalPurchase(c, ps, user) ==
    IF hasPrices(c) = JsTrue
    THEN SeqSum([j \in 1..Len(user.sales) |->
                    parseFloatOr0(user.sales[j].quantity)
                        * salePrice(ps, user.sales[j])])
    ELSE 0

salesTotalWritesMutAlwaysFormula(c, ps, user, row) ==
    LET nCommonHeads == Len(CommonHeads)
    IN  << W("sales", row, nCommonHeads + 1, NumCell(Whole(sTotalItems(user))),
             Named("total", "Total Items Purchased")),
           W("sales", row, nCommonHeads + 2,
             NumCell(Whole(sTotalCartItems(user))),
             Named("total", "Total Basket Items")) >>
        \o (IF hasPrices(c) # JsTrue THEN << >>
            ELSE IF getPartner(c) # Niq
            THEN << W("sales", row, nCommonHeads + 3,
                      NumCell(Whole(sTotalPurchase(c, ps, user))),
                      Named("total", "Total Spend")) >>
            ELSE << W("sales", row, nCommonHeads + 5,
                      NumCell(Whole(sTotalPurchase(c, ps, user))),
                      Named("total", "Total Spend")),
                    W("sales", row, nCommonHeads + 3,
                      FormulaCell(Quotient("H", "D", row)),
                      Named("total", "Avg Basket Price")),
                    W("sales", row, nCommonHeads + 4,
                      FormulaCell(Quotient("D", "E", row)),
                      Named("total", "Avg Products Purchased")) >>)

\* // Set totals
salesTotalWrites(c, ps, user, row) ==
    LET nCommonHeads == Len(CommonHeads)
    IN  << W("sales", row, nCommonHeads + 1, NumCell(Whole(sTotalItems(user))),
             Named("total", "Total Items Purchased")),
           W("sales", row, nCommonHeads + 2,
             NumCell(Whole(sTotalCartItems(user))),
             Named("total", "Total Basket Items")) >>
        \o (IF hasPrices(c) # JsTrue THEN << >>
            ELSE IF getPartner(c) # Niq
            THEN << W("sales", row, nCommonHeads + 3,
                      NumCell(Whole(sTotalPurchase(c, ps, user))),
                      Named("total", "Total Spend")) >>
            ELSE << W("sales", row, nCommonHeads + 5,
                      NumCell(Whole(sTotalPurchase(c, ps, user))),
                      Named("total", "Total Spend")) >>
                 \o (IF sTotalCartItems(user) > 0
                          /\ sTotalPurchase(c, ps, user) > 0
                     THEN << W("sales", row, nCommonHeads + 3,
                               FormulaCell(Quotient("H", "D", row)),
                               Named("total", "Avg Basket Price")),
                             W("sales", row, nCommonHeads + 4,
                               FormulaCell(Quotient("D", "E", row)),
                               Named("total", "Avg Products Purchased")) >>
                     ELSE << W("sales", row, nCommonHeads + 3,
                               NumCell(Whole(0)),
                               Named("total", "Avg Basket Price")),
                             W("sales", row, nCommonHeads + 4,
                               NumCell(Whole(0)),
                               Named("total", "Avg Products Purchased")) >>))

salesWritesMutIgnoreAoi(c, ps, user, row) ==
    LET sc == salesColumns(ps, Len(CommonHeads), hasPrices(c))
    IN  Concat([j \in 1..Len(user.sales) |->
                   saleEventWrites(c, ps, sc, user.sales[j], row)])
            \o salesTotalWrites(c, ps, user, row)

\* // Assign Sales values: nothing when isAoi
salesWrites(c, ps, user, row) ==
    LET sc == salesColumns(ps, Len(CommonHeads), hasPrices(c))
    IN  IF c.isAoi THEN << >>
        ELSE Concat([j \in 1..Len(user.sales) |->
                        saleEventWrites(c, ps, sc, user.sales[j], row)])
                 \o salesTotalWrites(c, ps, user, row)

\* the cells of one click event: none when its index is -1
clickEventWrites(cc, click, row) ==
    IF click.index = 0 - 1 THEN << >>
    ELSE LET p == click.index - 1
             column == getColumnIndex(p, cc, 0)
         IN  << W("clicks", row, column, NumCell(Whole(1)), Ev(p, 0, "selected")),
                W("clicks", row, column + 1,
                  NumCell(Whole(IF click.dwellTime.nan THEN 0 - 1
                                ELSE click.dwellTime.n)),
                  Ev(p, 1, "dwellTime")) >>

totalCountClicks(user) ==
    SeqSum([j \in 1..Len(user.clicks) |-> user.clicks[j].count])

clicksWritesMutIndexedOnly(c, ps, user, row) ==
    LET nCommonHeads == Len(CommonHeads)
        cc == clicksColumns(ps, nCommonHeads)
        IsIndexed(click) == click.index # 0 - 1
        indexed == SelectSeq(user.clicks, IsIndexed)
        firstClick == IF Len(indexed) > 0 THEN indexed[1].index ELSE 0
        timeFirstClick == IF Len(indexed) > 0 THEN indexed[1].time ELSE 0
        averageInteractions ==
            IF Len(indexed) > 0
            THEN Rat(SeqSum([j \in 1..Len(indexed) |-> indexed[j].count]),
                     Len(indexed))
            ELSE Whole(0)
    IN  Concat([j \in 1..Len(user.clicks) |->
                   clickEventWrites(cc, user.clicks[j], row)])
            \o << W("clicks", row, nCommonHeads + 1, NumCell(Whole(firstClick)),
                    Named("total", "First Selection")),
                  W("clicks", row, nCommonHeads + 2,
                    NumCell(Whole(timeFirstClick)),
                    Named("total", "Time First Selection")),
                  W("clicks", row, nCommonHeads + 3,
                    NumCell(Whole(Len(indexed))),
                    Named("total", "Total Products Selected")) >>
            \o (IF getPartner(c) = Niq
                THEN << W("clicks", row, nCommonHeads + 4,
                          NumCell(averageInteractions),
                          Named("total", "Avg Interactions Per Product")) >>
                ELSE << >>)

\* // Assign Click values
clicksWrites(c, ps, user, row) ==
    LET nCommonHeads == Len(CommonHeads)
        cc == clicksColumns(ps, nCommonHeads)
        firstClick == IF Len(user.clicks) > 0 THEN user.clicks[1].index ELSE 0
        timeFirstClick == IF Len(user.clicks) > 0 THEN user.clicks[1].time ELSE 0
        averageInteractions ==
            IF Len(user.clicks) > 0
            THEN Rat(totalCountClicks(user), Len(user.clicks))
            ELSE Whole(0)
    IN  Concat([j \in 1..Len(user.clicks) |->
                   clickEventWrites(cc, user.clicks[j], row)])
            \o << W("clicks", row, nCommonHeads + 1, NumCell(Whole(firstClick)),
                    Named("total", "First Selection")),
                  W("clicks", row, nCommonHeads + 2,
                    NumCell(Whole(timeFirstClick)),
                    Named("total", "Time First Selection")),
                  W("clicks", row, nCommonHeads + 3,
                    NumCell(Whole(Len(user.clicks))),
                    Named("total", "Total Products Selected")) >>
            \o (IF getPartner(c) = Niq
                THEN << W("clicks", row, nCommonHeads + 4,
                          NumCell(averageInteractions),
                          Named("total", "Avg Interactions Per Product")) >>
                ELSE << >>)

\* view.timer > 0.4999
ViewTimerThreshold == Rat(4999, 10000)

viewEventWritesMutAtLeast(vc, view, row) ==
    IF view.index = 0 - 1 \/ RatGt(ViewTimerThreshold, view.timer) THEN << >>
    ELSE LET p == view.index - 1
             column == getColumnIndex(p, vc, 0)
         IN  << W("views", row, column, NumCell(Whole(1)), Ev(p, 0, "viewed")),
                W("views", row, column + 1, NumCell(view.timer),
                  Ev(p, 1, "timer")) >>

\* the cells of one view event: none when its index is -1 or its timer is
\* not above the threshold
viewEventWrites(vc, view, row) ==
    IF view.index = 0 - 1 \/ ~RatGt(view.timer, ViewTimerThreshold) THEN << >>
    ELSE LET p == view.index - 1
             column == getColumnIndex(p, vc, 0)
         IN  << W("views", row, column, NumCell(Whole(1)), Ev(p, 0, "viewed")),
                W("views", row, column + 1, NumCell(view.timer),
                  Ev(p, 1, "timer")) >>

\* // Assign View values
viewsWrites(ps, user, row) ==
    LET vc == viewsColumns(Len(ps), Len(CommonHeads))
    IN  Concat([j \in 1..Len(user.views) |->
                   viewEventWrites(vc, user.views[j], row)])

assignScvValuesMutPrefillLate(c, ps, us) ==
    Concat([i \in 1..Len(us) |->
        identityWrites(<< "sales", "clicks", "views" >>, us[i], i + 1)
            \o salesWrites(c, ps, us[i], i + 1)
            \o clicksWrites(c, ps, us[i], i + 1)
            \o viewsWrites(ps, us[i], i + 1)])
        \o prefill(c, "views",
                   viewsColumns(Len(ps), Len(CommonHeads)), Len(us))

\* assignScvValues(users, products): the writes in the order the code makes
\* them
assignScvValues(c, ps, us) ==
    Concat([i \in 1..Len(us) |->
        identityWrites(<< "sales", "clicks", "views" >>, us[i], i + 1)
            \o salesWrites(c, ps, us[i], i + 1)
            \o clicksWrites(c, ps, us[i], i + 1)
            \o viewsWrites(ps, us[i], i + 1)])

-----------------------------------------------------------------------------
(* ExcelReportService.populateFunnelAndNonPurchase, cell by cell *)

\* the header row of the two sheets
funnelHeaderWrites(ps) ==
    LET fc == funnelColumns(Len(ps), Len(CommonHeads))
        npc == nonPurchaseColumns(Len(ps), Len(CommonHeads))
    IN  commonHeadWrites(<< "funnel", "nonPurchase" >>)
            \o baseHeadWrites("funnel", fc)
            \o baseHeadWrites("nonPurchase", npc)
            \o Concat([i \in 1..Len(ps) |->
                         assignIndexColumns("funnel", fc, i - 1)
                             \o assignIndexColumns("nonPurchase", npc, i - 1)])

funnelEventWrites(fc, funnel, row) ==
    IF funnel.index = 0 - 1 THEN << >>
    ELSE << W("funnel", row, getColumnIndex(funnel.index - 1, fc, 0),
              NumCell(Whole(funnel.conversion)),
              Ev(funnel.index - 1, 0, "conversion")) >>

totalPurchaseMutIndexedOnly(user) ==
    SeqSum([j \in 1..Len(user.funnels.list) |->
               IF user.funnels.list[j].conversion = 1
                     /\ user.funnels.list[j].index # 0 - 1
               THEN 1 ELSE 0])

\* totalPurchase++ for every funnel with conversion === 1
totalPurchase(user) ==
    SeqSum([j \in 1..Len(user.funnels.list) |->
               IF user.funnels.list[j].conversion = 1 THEN 1 ELSE 0])

funnelWritesMutSkipAbsent(ps, user, row) ==
    LET fc == funnelColumns(Len(ps), Len(CommonHeads))
    IN  IF user.funnels.t # "array" THEN << >>
        ELSE Concat([j \in 1..Len(user.funnels.list) |->
                        funnelEventWrites(fc, user.funnels.list[j], row)])
                 \o << W("funnel", row, Len(CommonHeads) + 1,
                         NumCell(IF Len(user.funnels.list) > 0
                                 THEN Rat(totalPurchase(user),
                                          Len(user.funnels.list))
                                 ELSE Whole(0)),
                         Named("total", "Total Conversion Rate")) >>

\* // ---- Funnel ----
funnelWrites(ps, user, row) ==
    LET fc == funnelColumns(Len(ps), Len(CommonHeads))
        totalClicks == IF user.funnels.t = "array"
                       THEN Len(user.funnels.list) ELSE 0
        totalConversionRate ==
            IF totalClicks > 0 THEN Rat(totalPurchase(user), totalClicks)
            ELSE Whole(0)
    IN  (IF user.funnels.t = "array"
         THEN Concat([j \in 1..Len(user.funnels.list) |->
                         funnelEventWrites(fc, user.funnels.list[j], row)])
         ELSE << >>)
            \o << W("funnel", row, Len(CommonHeads) + 1,
                    NumCell(totalConversionRate),
                    Named("total", "Total Conversion Rate")) >>

nonPurchaseEventWritesMutOneBased(npc, nonP, j, row) ==
    IF nonP.index = 0 - 1 THEN << >>
    ELSE LET column == getColumnIndex(nonP.index, npc, 0)
         IN  << W("nonPurchase", row, column, NumCell(Whole(1)),
                  Ev(nonP.index - 1, 0, "notPurchased")),
                W("nonPurchase", row, column + 1, NumCell(Whole(j)),
                  Ev(nonP.index - 1, 1, "sequence")) >>

\* the cells of the j-th (1-based) non-purchase event
nonPurchaseEventWrites(npc, nonP, j, row) ==
    IF nonP.index = 0 - 1 THEN << >>
    ELSE LET column == getColumnIndex(nonP.index - 1, npc, 0)
         IN  << W("nonPurchase", row, column, NumCell(Whole(1)),
                  Ev(nonP.index - 1, 0, "notPurchased")),
                W("nonPurchase", row, column + 1, NumCell(Whole(j)),
                  Ev(nonP.index - 1, 1, "sequence")) >>

\* // ---- Non Purchase ----
nonPurchaseWrites(ps, user, row) ==
    LET npc == nonPurchaseColumns(Len(ps), Len(CommonHeads))
        totalNotPurchase == IF user.notPurchased.t = "array"
                            THEN Len(user.notPurchased.list) ELSE 0
    IN  (IF user.notPurchased.t = "array"
         THEN Concat([j \in 1..Len(user.notPurchased.list) |->
                         nonPurchaseEventWrites(npc, user.notPurchased.list[j],
                                                j, row)])
         ELSE << >>)
            \o << W("nonPurchase", row, Len(CommonHeads) + 1,
                    NumCell(Whole(totalNotPurchase)),
                    Named("total", "Total Not Purchased")) >>

\* populateFunnelAndNonPurchase(users, products, numberOfUsers): the writes in
\* the order the code makes them
populateFunnelAndNonPurchase(ps, us) ==
    funnelHeaderWrites(ps)
        \o Concat([i \in 1..Len(us) |->
              identityWrites(<< "funnel", "nonPurchase" >>, us[i], i + 1)
                  \o funnelWrites(ps, us[i], i + 1)
                  \o nonPurchaseWrites(ps, us[i], i + 1)])

-----------------------------------------------------------------------------
(* Specification of the section sheets: generateExcelFile from the header   *)
(* generator to the funnel populator, on sheets kept cell by cell           *)

MaxSheetProducts == 2   \* longest product list of a sheet run
MaxSheetUsers == 2      \* largest number of user records of a sheet run
MaxEvents == 2          \* longest event list of a user

Five == Str(<< "5" >>)
Zero == Str(<< "0" >>)

\* the product list: idProduct is the position; the products at odd positions
\* have the price "5", the others have none
SheetProducts(idProject, n) ==
    [i \in 1..n |-> SheetProduct(i, idProject, IF i % 2 = 1 THEN Five ELSE Null)]

Indexes(n) == (1..n) \cup {0 - 1}

SaleEvents(n) ==
    { SaleEvent(i, i, q, Five, d) :
        i \in 1..n, q \in {Zero, Five}, d \in {Undefined, Five} }
      \cup { SaleEvent(0, 1, Five, Five, Str(<< "x" >>)) }

\* click events of time 3 and count 2, next to the default click of time 5 and
\* count 5
ClickEvents(n) ==
    { ClickEvent(i, 3, 2, d) : i \in Indexes(n), d \in {NaN, Num(5)} }

ViewTimers == { ViewTimerThreshold, Rat(1, 2) }

ViewEvents(n) == { ViewEvent(i, t) : i \in Indexes(n), t \in ViewTimers }

FunnelEvents(n) == { FunnelEvent(i, cv) : i \in Indexes(n), cv \in {0, 1} }

NonPurchaseEvents(n) == { NonPurchaseEvent(i) : i \in Indexes(n) }

\* a user with one event of each kind on the first product
DefaultUser ==
    User("master", << SaleEvent(1, 1, Five, Five, Five) >>,
         << ClickEvent(1, 5, 5, Num(5)) >>, << ViewEvent(1, Rat(1, 2)) >>,
         List(<< FunnelEvent(1, 1) >>), List(<< NonPurchaseEvent(1) >>))

\* the event lists of at most MaxEvents events of which the last is any event
\* of es and the others are the event dflt
EventLists(es, dflt) ==
    { << >> } \cup
    { [j \in 1..len |-> IF j = len THEN e ELSE dflt] :
        len \in 1..MaxEvents, e \in es }

\* the user records: DefaultUser with one of its lists replaced
UserVariants(n) ==
    { [DefaultUser EXCEPT !.sales = l] :
        l \in EventLists(SaleEvents(n), DefaultUser.sales[1]) }
    \cup { [DefaultUser EXCEPT !.clicks = l] :
        l \in EventLists(ClickEvents(n), DefaultUser.clicks[1]) }
    \cup { [DefaultUser EXCEPT !.views = l] :
        l \in EventLists(ViewEvents(n), DefaultUser.views[1]) }
    \cup { [DefaultUser EXCEPT !.funnels = f] :
        f \in {NoList} \cup
              { List(l) : l \in EventLists(FunnelEvents(n),
                                           DefaultUser.funnels.list[1]) } }
    \cup { [DefaultUser EXCEPT !.funnels = NoList, !.notPurchased = NoList] }
    \cup { [DefaultUser EXCEPT !.notPurchased = f] :
        f \in {NoList} \cup
              { List(l) : l \in EventLists(NonPurchaseEvents(n),
                                           DefaultUser.notPurchased.list[1]) } }

\* the scv documents: at most MaxSheetUsers records of which the last is any
\* record of UserVariants and the others are DefaultUser
SheetUsers(n) ==
    { << >> } \cup
    { [i \in 1..len |-> IF i = len THEN u ELSE DefaultUser] :
        len \in 1..MaxSheetUsers, u \in UserVariants(n) }

SheetOptions ==
    { [OptionsWith({"largeDataSet", "hasPrices"}, large, FALSE, 0, 0, hp)
          EXCEPT !.present = @ \cup {"isAoi"}, !.isAoi = aoi] :
        large \in BOOLEAN, hp \in BOOLEAN, aoi \in BOOLEAN }

\* what the handlers of a sheet run leave alone
sheetFrame == << config, managerWb, populatorWb, headersWb, options, s3,
                 tempFiles, localFile, uploaded, retryAttempt, products, users,
                 outcome, error, caught, attempts, thrown, proactive, ret, arg, jobVars >>

\* generateExcelFile is about to call the header generator: the products and
\* the users are fetched, pricing is resolved, the workbook is still empty
SheetRunOf(idProject, ps, o, us) ==
        /\ options = o
        /\ config = NewReportConfiguration(idProject, o)
        /\ products = ps
        /\ users = us
        /\ workbooks =
             << [sheets |-> createWorksheets(NewReportConfiguration(idProject, o)),
                 items |-> << >>] >>
        /\ managerWb = 1
        /\ populatorWb = 1
        /\ headersWb = 1
        /\ s3 = [products |-> [status |-> "ok", body |-> << >>],
                 scv |-> [status |-> "ok", body |-> 0],
                 findability |-> [status |-> "missing", body |-> 0]]
        /\ tempFiles = {}
        /\ localFile = NoFile
        /\ uploaded = NoFile
        /\ pc = "generate"
        /\ retryAttempt = 0
        /\ outcome = "running"
        /\ error = NoError
        /\ caught = NoError
        /\ attempts = 1
        /\ thrown = << >>
        /\ proactive = FALSE
        /\ ret = JsUndefined
        /\ arg = << >>
        /\ IdleJobs

\* the run of a project whose product records carry the project's id
SheetRun(idProject, o, n, us) ==
    SheetRunOf(idProject, SheetProducts(idProject, n), o, us)

InitSheets ==
    \E idProject \in IdProjects, o \in SheetOptions,
       n \in 1..MaxSheetProducts :
      \E us \in SheetUsers(n) : SheetRun(idProject, o, n, us)

\* the worksheet.cell(...) calls ws made in this order on workbook wb
WriteCells(wb, ws) ==
    workbooks' = [workbooks EXCEPT ![wb].items = @ \o ws]

\* this.scvHeadersGenerator.generate(products, numberOfUsers)
SheetsGenerate ==
    /\ pc = "generate"
    /\ WriteCells(headersWb, generate(config, products, Len(users)))
    /\ pc' = "assignScvValues"
    /\ UNCHANGED sheetFrame

\* this.assignScvValues(users, products)
SheetsAssignScvValues ==
    /\ pc = "assignScvValues"
    /\ WriteCells(managerWb, assignScvValues(config, products, users))
    /\ pc' = "populateFunnelAndNonPurchase"
    /\ UNCHANGED sheetFrame

\* if (idProject.startsWith('niq')) this.populateFunnelAndNonPurchase(...)
SheetsPopulateFunnelAndNonPurchase ==
    /\ pc = "populateFunnelAndNonPurchase"
    /\ IF startsWithNiq(config.idProject)
       THEN WriteCells(managerWb, populateFunnelAndNonPurchase(products, users))
       ELSE UNCHANGED workbooks
    /\ pc' = "writeFile"
    /\ UNCHANGED sheetFrame

NextSheets ==
    \/ SheetsGenerate
    \/ SheetsAssignScvValues
    \/ SheetsPopulateFunnelAndNonPurchase

SpecSheets == InitSheets /\ [][NextSheets]_vars

\* the cells of the workbook that will be written to the file
Sheet == workbooks[managerWb].items

\* the runs whose document is compared with the one of the other mode: the
\* Standard runs of at most MaxModeUsers user records
MaxModeUsers == 1       \* largest number of user records of a compared run

InitModes ==
    \E idProject \in IdProjects, o \in SheetOptions,
       n \in 1..MaxSheetProducts :
      \E us \in SheetUsers(n) :
        /\ ~o.largeDataSet
        /\ Len(us) <= MaxModeUsers
        /\ SheetRun(idProject, o, n, us)

SpecModes == InitModes /\ [][NextSheets]_vars

-----------------------------------------------------------------------------
(* Claims about the section sheets, checked under SpecSheets *)

\* the descriptor of a section sheet in this run
SectionColumns(sh) == LayoutColumns(sh, products, hasPrices(config))

\* the header row of a section sheet has been written
HeadersWritten(sh) ==
    IF sh \in ScvSheets THEN pc # "generate"
    ELSE pc = "writeFile" /\ startsWithNiq(config.idProject)

\* the indexed template that names the value of a field of an event
HeaderFor(sh, what) ==
    CASE sh = "sales" /\ what = "purchased" -> "Purchased-Product Index:"
      [] sh = "sales" /\ what = "quantity" -> "Quantity-Product Index:"
      [] sh = "sales" /\ what = "sequence" -> "Sequence Index:"
      [] sh = "sales" /\ what = "dwellTime" -> "Dwell Time Index:"
      [] sh = "sales" /\ what = "price" -> "Price-Product Index:"
      [] sh = "clicks" /\ what = "selected" -> "Selected-Product Index:"
      [] sh = "clicks" /\ what = "dwellTime" -> "Dwell-Time Index:"
      [] sh = "views" /\ what = "viewed" -> "Viewed-Product Index:"
      [] sh = "views" /\ what = "timer" -> "Time-Viewed Index:"
      [] sh = "funnel" /\ what = "conversion" -> "Conversion Funnel Index:"
      [] sh = "nonPurchase" /\ what = "notPurchased" ->
            "Product-Not-Purchased Index:"
      [] sh = "nonPurchase" /\ what = "sequence" -> "Sequence Index:"
      [] OTHER -> "none"

EventWrites == {i \in 1..Len(Sheet) : Sheet[i].src.by = "event"}

\* C12: on every section sheet the header of product p and template t is in
\* row 1 at column getColumnIndex(p, descriptor, t), and every value written
\* for an event of product p is written at the column getColumnIndex gives
\* for its template, below row 1, where row 1 holds the header that names the
\* value and the product.
C12_ValueUnderHeader ==
    /\ \A sh \in Layouts :
         HeadersWritten(sh) =>
           LET d == SectionColumns(sh)
           IN  \A p \in 0..(Len(products) - 1), t \in 0..(Len(d.icn) - 1) :
                 CellAt(Sheet, sh, 1, getColumnIndex(p, d, t))
                     = StrCell(HeadText(d.icn[t + 1], p + 1))
    /\ \A i \in EventWrites :
         LET w == Sheet[i]
         IN  /\ w.col = getColumnIndex(w.src.p, SectionColumns(w.sheet), w.src.t)
             /\ w.row > 1
             /\ HeadersWritten(w.sheet)
             /\ CellAt(Sheet, w.sheet, 1, w.col)
                  = StrCell(HeadText(HeaderFor(w.sheet, w.src.name), w.src.p + 1))

\* a niq run with pricing whose five sheets all hold event values, one of
\* them for the last template of a product that is not the first
C12_Witness ==
    /\ pc = "writeFile"
    /\ hasPrices(config) = JsTrue
    /\ \A sh \in Layouts : \E i \in EventWrites : Sheet[i].sheet = sh
    /\ \E i \in EventWrites :
         /\ Sheet[i].sheet = "sales"
         /\ Sheet[i].src.p > 0
         /\ Sheet[i].src.name = "price"

\* assignScvValues has run
ValuesAssigned == pc \in {"populateFunnelAndNonPurchase", "writeFile"}

\* the values written to the Views sheet for the user of a row and a field
ViewValues(row, what) ==
    { << Sheet[i].src.p, Sheet[i].v >> :
        i \in { k \in EventWrites : /\ Sheet[k].sheet = "views"
                                    /\ Sheet[k].row = row
                                    /\ Sheet[k].src.name = what } }

\* the view events of a user that must be written: index not -1 and timer
\* above 0.4999
ViewsToWrite(user) ==
    { j \in 1..Len(user.views) :
        /\ user.views[j].index # 0 - 1
        /\ user.views[j].timer.n * 10000 > 4999 * user.views[j].timer.d }

\* C13: for every view event of every user the viewed flag 1 and the timer
\* are written to the Views sheet iff the index is not -1 and the timer is
\* greater than 0.4999; a timer of 0.4999 is not written, one of 0.5 is.
C13_ViewWrittenIff ==
    ValuesAssigned =>
        \A u \in 1..Len(users) :
            /\ ViewValues(u + 1, "viewed") =
                 { << users[u].views[j].index - 1, NumCell(Whole(1)) >> :
                     j \in ViewsToWrite(users[u]) }
            /\ ViewValues(u + 1, "timer") =
                 { << users[u].views[j].index - 1,
                      NumCell(users[u].views[j].timer) >> :
                     j \in ViewsToWrite(users[u]) }
            /\ \A j \in 1..Len(users[u].views) :
                 /\ users[u].views[j].timer = Rat(4999, 10000)
                      => j \notin ViewsToWrite(users[u])
                 /\ (users[u].views[j].timer = Rat(1, 2)
                       /\ users[u].views[j].index # 0 - 1)
                      => j \in ViewsToWrite(users[u])

\* a user with a view of 0.5 s of the first product, which is written, and
\* one of 0.4999 s of another product, which is not
C13_Witness ==
    /\ pc = "writeFile"
    /\ \E u \in 1..Len(users) :
         /\ Len(users[u].views) = 2
         /\ users[u].views[1] = ViewEvent(1, Rat(1, 2))
         /\ users[u].views[2] = ViewEvent(2, Rat(4999, 10000))
         /\ CellAt(Sheet, "views", u + 1, 4) = NumCell(Whole(1))
         /\ CellAt(Sheet, "views", u + 1, 5) = NumCell(Rat(1, 2))
         /\ CellAt(Sheet, "views", u + 1, 6) \in {Blank, NumCell(Whole(0))}
         /\ CellAt(Sheet, "views", u + 1, 7) \in {Blank, NumCell(Whole(0))}

\* the cells of the indexed columns of a row that hold something
IndexedCells(sh, row) ==
    { col \in SectionColumns(sh).fxc..SectionColumns(sh).tc :
        CellAt(Sheet, sh, row, col) # Blank }

\* C14: in a niq project a user record without funnels and/or without
\* notPurchased is processed without error: its row gets total conversion
\* rate 0, respectively total not-purchased 0, and no indexed funnel,
\* respectively non-purchase, cell.
C14_AbsentListsCountZero ==
    (pc = "writeFile" /\ startsWithNiq(config.idProject)) =>
        /\ error = NoError
        /\ \A u \in 1..Len(users) :
             /\ users[u].funnels = NoList =>
                  /\ CellAt(Sheet, "funnel", u + 1, Len(CommonHeads) + 1)
                       = NumCell(Whole(0))
                  /\ IndexedCells("funnel", u + 1) = {}
                  /\ ~ \E i \in EventWrites :
                         Sheet[i].sheet = "funnel" /\ Sheet[i].row = u + 1
             /\ users[u].notPurchased = NoList =>
                  /\ CellAt(Sheet, "nonPurchase", u + 1, Len(CommonHeads) + 1)
                       = NumCell(Whole(0))
                  /\ IndexedCells("nonPurchase", u + 1) = {}
                  /\ ~ \E i \in EventWrites :
                         Sheet[i].sheet = "nonPurchase" /\ Sheet[i].row = u + 1

\* the second of two users has neither list; the first has both
C14_Witness ==
    /\ pc = "writeFile"
    /\ startsWithNiq(config.idProject)
    /\ Len(users) = 2
    /\ users[2].funnels = NoList
    /\ users[2].notPurchased = NoList
    /\ CellAt(Sheet, "funnel", 3, 4) = NumCell(Whole(0))
    /\ CellAt(Sheet, "nonPurchase", 3, 4) = NumCell(Whole(0))
    /\ CellAt(Sheet, "funnel", 2, 4) = NumCell(Whole(1))
    /\ CellAt(Sheet, "funnel", 3, 1) = StrCell(Text("survey"))

\* the Avg Basket Price and Avg Products Purchased cells of a sales row
AvgCells(row) ==
    { CellAt(Sheet, "sales", row, Len(CommonHeads) + 3),
      CellAt(Sheet, "sales", row, Len(CommonHeads) + 4) }

\* the averages of the row of user u are guarded: formulas only when neither
\* the total spend nor the total items is zero, the literal 0 otherwise
AveragesGuarded(u) ==
    LET items == sTotalItems(users[u])
        spend == sTotalPurchase(config, products, users[u])
    IN  /\ (\E c \in AvgCells(u + 1) : c.k = "formula")
              => (items # 0 /\ spend # 0)
        /\ (items = 0 \/ spend = 0) => AvgCells(u + 1) = {NumCell(Whole(0))}

OnClicksOrViews(w) == w.sheet \in {"clicks", "views"}

\* the writes to Clicks and Views of the same run with AOI mode off
ClicksAndViewsAsUsual ==
    LET c == [config EXCEPT !.isAoi = FALSE]
    IN  SelectSeq(generate(c, products, Len(users))
                      \o assignScvValues(c, products, users),
                  OnClicksOrViews)

\* C17: with AOI mode on nothing of the sales section is written: below the
\* header row the Sales sheet gets only the three identity columns and, in
\* Standard mode, the zero pre-fill, so no sale-event cell and no sales total
\* (total items, basket items, total spend, averages); Clicks and Views get
\* what they get with AOI mode off.
C17_AoiSkipsSales ==
    config.isAoi =>
        /\ \A i \in 1..Len(Sheet) :
             (Sheet[i].sheet = "sales" /\ Sheet[i].row2 > 1) =>
                 \/ /\ Sheet[i].src.by = "identity"
                    /\ Sheet[i].col \in 1..Len(CommonHeads)
                 \/ /\ Sheet[i].src.by = "prefill"
                    /\ ~config.largeDataSet
                    /\ Sheet[i].v = NumCell(Whole(0))
        /\ ValuesAssigned =>
             /\ \A u \in 1..Len(users), col \in 4..SectionColumns("sales").tc :
                  CellAt(Sheet, "sales", u + 1, col) =
                      IF ~config.largeDataSet /\ col >= SectionColumns("sales").fxc
                      THEN NumCell(Whole(0)) ELSE Blank
             /\ SelectSeq(Sheet, OnClicksOrViews) = ClicksAndViewsAsUsual

\* an AOI run in Standard mode whose user has a sale, a click and a view of
\* the first product: the sales row has its identity and zeros only
C17_Witness ==
    /\ pc = "writeFile"
    /\ config.isAoi
    /\ ~config.largeDataSet
    /\ Len(users) = 1
    /\ Len(users[1].sales) = 2
    /\ CellAt(Sheet, "sales", 2, 2) = StrCell(Text("master"))
    /\ CellAt(Sheet, "sales", 2, 4) = Blank
    /\ CellAt(Sheet, "sales", 2, SectionColumns("sales").fxc) = NumCell(Whole(0))
    /\ CellAt(Sheet, "clicks", 2, SectionColumns("clicks").fxc) = NumCell(Whole(1))
    /\ CellAt(Sheet, "views", 2, 4) = NumCell(Whole(1))

\* the document the same inputs and configuration give in the other mode
OtherMode == [config EXCEPT !.largeDataSet = ~config.largeDataSet]

OtherModeSheet ==
    generate(OtherMode, products, Len(users))
        \o assignScvValues(OtherMode, products, users)
        \o (IF startsWithNiq(OtherMode.idProject)
            THEN populateFunnelAndNonPurchase(products, users)
            ELSE << >>)

\* a blank cell read as 0
ReadAsZero(cell) == IF cell = Blank THEN NumCell(Whole(0)) ELSE cell

\* the writes of the log made to the sheet sh, and those reaching the row r
OnSheet(log, sh) == LET On(w) == w.sheet = sh IN SelectSeq(log, On)
OnRow(log, r) == LET On(w) == w.row <= r /\ r <= w.row2 IN SelectSeq(log, On)

\* the columns some write of the log covers
WrittenColumns(log) ==
    UNION {log[i].col..log[i].col2 : i \in 1..Len(log)}

\* the row r of the sheet sh reads the same in a and b when a blank cell is
\* read as 0, and a cell that differs is an explicit 0 of the Standard one
RowSameReadAsZero(a, b, sh, r, aIsLarge) ==
    \A col \in WrittenColumns(a) \cup WrittenColumns(b) :
        LET here == CellAt(a, sh, r, col)
            there == CellAt(b, sh, r, col)
        IN  /\ ReadAsZero(here) = ReadAsZero(there)
            /\ (here # there) =>
                   /\ {here, there} = {Blank, NumCell(Whole(0))}
                   /\ here = Blank <=> aIsLarge

SheetSameReadAsZero(a, b, sh, aIsLarge) ==
    \A r \in UNION {a[i].row..a[i].row2 : i \in 1..Len(a)}
                 \cup UNION {b[i].row..b[i].row2 : i \in 1..Len(b)} :
        \A ar \in {OnRow(a, r)}, br \in {OnRow(b, r)} :
            RowSameReadAsZero(ar, br, sh, r, aIsLarge)

SameReadAsZero(a, b, aIsLarge) ==
    \A sh \in {a[i].sheet : i \in 1..Len(a)} \cup {b[i].sheet : i \in 1..Len(b)} :
        \A as \in {OnSheet(a, sh)}, bs \in {OnSheet(b, sh)} :
            SheetSameReadAsZero(as, bs, sh, aIsLarge)

\* C18 (checked under SpecModes): once the document is generated, every cell of every sheet reads the
\* same in LargeDataset mode and in Standard mode when a blank cell is read as
\* 0; a cell that differs is an explicit 0 of the Standard document, blank in
\* the LargeDataset one.
C18_ModesAgree ==
    pc = "writeFile" =>
        \A other \in {OtherModeSheet} :
            SameReadAsZero(Sheet, other, config.largeDataSet)

\* a Standard document and its LargeDataset twin: the zero of a product without
\* a sale is blank in the twin, and the quantity sold of the first product is
\* the same value in both
C18_Witness ==
    /\ pc = "writeFile"
    /\ ~config.largeDataSet
    /\ ~config.isAoi
    /\ Len(products) = 2
    /\ Len(users) = 1
    /\ LET sc == SectionColumns("sales")
       IN  /\ CellAt(Sheet, "sales", 2, getColumnIndex(1, sc, 0)) = NumCell(Whole(0))
           /\ CellAt(OtherModeSheet, "sales", 2, getColumnIndex(1, sc, 0)) = Blank
           /\ CellAt(Sheet, "sales", 2, getColumnIndex(0, sc, 0)) # NumCell(Whole(0))
           /\ CellAt(Sheet, "sales", 2, getColumnIndex(0, sc, 0))
                  = CellAt(OtherModeSheet, "sales", 2, getColumnIndex(0, sc, 0))

\* the section sheets of this run
SectionSheets ==
    IF startsWithNiq(config.idProject)
    THEN {"sales", "clicks", "views", "funnel", "nonPurchase"}
    ELSE {"sales", "clicks", "views"}

\* the writes that pre-fill a cell
Prefills(sh, row, col) ==
    { i \in 1..Len(Sheet) :
        Sheet[i].src.by = "prefill" /\ Covers(Sheet[i], sh, row, col) }

\* C27: in Standard mode, once the headers of a section sheet are written,
\* every cell of its numeric data region (rows 2..userCount+1, columns
\* firstIndexedColumn..totalColumns) has been pre-filled with the number 0, on
\* Sales, Clicks and Views and, for niq projects, on Funnel and NotPurchased;
\* in LargeDataset mode no cell is pre-filled.
C27_PrefillEverySection ==
    \A sh \in SectionSheets :
        HeadersWritten(sh) =>
            IF config.largeDataSet
            THEN ~ \E i \in 1..Len(Sheet) :
                     Sheet[i].sheet = sh /\ Sheet[i].src.by = "prefill"
            ELSE \A row \in 2..(Len(users) + 1) :
                   \A col \in SectionColumns(sh).fxc..SectionColumns(sh).tc :
                     \E i \in Prefills(sh, row, col) :
                        Sheet[i].v = NumCell(Whole(0))

\* the column under the base head of that name
BaseColumn(sh, name) ==
    Len(CommonHeads)
        + (CHOOSE i \in 1..Len(SectionColumns(sh).bc) :
              SectionColumns(sh).bc[i] = name)

\* the price of the first product with that idProduct, 0 when there is none
PriceOf(idProduct) ==
    IF \E i \in 1..Len(products) : products[i].idProduct = idProduct
    THEN LET first == CHOOSE i \in 1..Len(products) :
                        /\ products[i].idProduct = idProduct
                        /\ \A k \in 1..(i - 1) : products[k].idProduct # idProduct
         IN  IF products[first].price.t = "string"
             THEN parseFloatOr0(products[first].price) ELSE 0
    ELSE 0

\* what the sale events of a user add up to
QuantitySum(sales) ==
    SeqSum([j \in 1..Len(sales) |-> parseFloatOr0(sales[j].quantity)])
SpendSum(sales) ==
    SeqSum([j \in 1..Len(sales) |->
               parseFloatOr0(sales[j].quantity) * PriceOf(sales[j].idProduct)])

\* the four values a sale event puts on its product's columns
SaleValues(sale) ==
    << 1, parseFloatOr0(sale.quantity), parseFloatOr0(sale.sequence),
       IF sale.dwellTime.t = "string" /\ ~parseFloat(sale.dwellTime).nan
       THEN parseFloat(sale.dwellTime).n ELSE 0 - 1 >>

\* the writes made to a cell, in order
WritesTo(sh, row, col) ==
    { i \in 1..Len(Sheet) : Covers(Sheet[i], sh, row, col) }

\* C29: with AOI off, the sales row of every user holds total items = the sum
\* of the quantities of the user's sale events, total basket items = the
\* number of sale events and, only when pricing is included, total spend =
\* the sum of quantity times the price of the product with the event's
\* idProduct (0 when none matches); every sale event writes the flag 1, its
\* quantity, its sequence and its dwell time (-1 when missing or not a
\* number) at the four consecutive columns of product index-1.
C29_SalesRow ==
    (ValuesAssigned /\ ~config.isAoi) =>
        \A u \in 1..Len(users) :
            LET row == u + 1
                sales == users[u].sales
                sc == SectionColumns("sales")
            IN  /\ CellAt(Sheet, "sales", row, BaseColumn("sales", "Total Items Purchased"))
                     = NumCell(Whole(QuantitySum(sales)))
                /\ CellAt(Sheet, "sales", row, BaseColumn("sales", "Total Basket Items"))
                     = NumCell(Whole(Len(sales)))
                /\ IF hasPrices(config) = JsTrue
                   THEN CellAt(Sheet, "sales", row, BaseColumn("sales", "Total Spend"))
                            = NumCell(Whole(SpendSum(sales)))
                   ELSE ~ \E i \in 1..Len(Sheet) :
                            /\ Sheet[i].sheet = "sales"
                            /\ Sheet[i].src.name = "Total Spend"
                /\ \A j \in 1..Len(sales) : \A t \in 0..3 :
                     LET col == getColumnIndex(sales[j].index - 1, sc, 0) + t
                         value == NumCell(Whole(SaleValues(sales[j])[t + 1]))
                     IN  /\ \E i \in WritesTo("sales", row, col) :
                               Sheet[i].src.by = "event" /\ Sheet[i].v = value
                         /\ (\A k \in (j + 1)..Len(sales) :
                                sales[k].index # sales[j].index)
                              => CellAt(Sheet, "sales", row, col) = value

\* a priced run whose first user bought product 1 twice, the second time under
\* an idProduct no product has and with a dwell time that is not a number:
\* 10 items, 2 basket items, spend 5 * 5 + 5 * 0, dwell time -1
C29_Witness ==
    /\ pc = "writeFile"
    /\ ~config.isAoi
    /\ hasPrices(config) = JsTrue
    /\ Len(users) >= 1
    /\ Len(users[1].sales) = 2
    /\ users[1].sales[2].idProduct = 0
    /\ CellAt(Sheet, "sales", 2, 4) = NumCell(Whole(10))
    /\ CellAt(Sheet, "sales", 2, 5) = NumCell(Whole(2))
    /\ CellAt(Sheet, "sales", 2, BaseColumn("sales", "Total Spend"))
           = NumCell(Whole(25))
    /\ CellAt(Sheet, "sales", 2,
              getColumnIndex(0, SectionColumns("sales"), 3))
           = NumCell(Whole(0 - 1))

\* the sum of the count fields of click events
CountSum(clicks) == SeqSum([j \in 1..Len(clicks) |-> clicks[j].count])

\* C30: the clicks row of every user holds First Selection and Time First
\* Selection of the user's first click event, even when its index is -1 (0
\* and 0 without clicks), Total Products Selected = the number of click
\* events, those of index -1 included, and for niq Avg Interactions Per
\* Product = the sum of the count fields divided by the number of click
\* events (0 without clicks); the selected flag and the dwell time are
\* written for the events whose index is not -1 and for no other.
C30_ClicksRow ==
    ValuesAssigned =>
        \A u \in 1..Len(users) :
            LET row == u + 1
                clicks == users[u].clicks
                cc == SectionColumns("clicks")
                onRow == { i \in EventWrites :
                             Sheet[i].sheet = "clicks" /\ Sheet[i].row = row }
                indexed == { j \in 1..Len(clicks) : clicks[j].index # 0 - 1 }
            IN  /\ CellAt(Sheet, "clicks", row, BaseColumn("clicks", "First Selection"))
                     = NumCell(Whole(IF clicks = << >> THEN 0 ELSE clicks[1].index))
                /\ CellAt(Sheet, "clicks", row,
                          BaseColumn("clicks", "Time First Selection"))
                     = NumCell(Whole(IF clicks = << >> THEN 0 ELSE clicks[1].time))
                /\ CellAt(Sheet, "clicks", row,
                          BaseColumn("clicks", "Total Products Selected"))
                     = NumCell(Whole(Len(clicks)))
                /\ startsWithNiq(config.idProject) =>
                     /\ clicks = << >> =>
                          CellAt(Sheet, "clicks", row,
                                 BaseColumn("clicks", "Avg Interactions Per Product"))
                            = NumCell(Whole(0))
                     /\ clicks # << >> =>
                          \E q \in {CellAt(Sheet, "clicks", row,
                                 BaseColumn("clicks", "Avg Interactions Per Product"))} :
                             /\ q.k = "number"
                             /\ q.v.n * Len(clicks) = CountSum(clicks) * q.v.d
                /\ Cardinality(onRow) = 2 * Cardinality(indexed)
                /\ \A j \in indexed :
                     LET col == getColumnIndex(clicks[j].index - 1, cc, 0)
                     IN  /\ \E i \in onRow :
                               /\ Sheet[i].col = col
                               /\ Sheet[i].v = NumCell(Whole(1))
                         /\ \E i \in onRow :
                               /\ Sheet[i].col = col + 1
                               /\ Sheet[i].v =
                                    NumCell(Whole(IF clicks[j].dwellTime.nan
                                                  THEN 0 - 1
                                                  ELSE clicks[j].dwellTime.n))

\* a niq run whose first user clicked product 1 and then nothing (index -1):
\* first selection 1 at time 5, two selections, average (5 + 2) / 2, and the
\* only indexed cells are those of product 1
C30_Witness ==
    /\ pc = "writeFile"
    /\ startsWithNiq(config.idProject)
    /\ Len(users) >= 1
    /\ Len(users[1].clicks) = 2
    /\ users[1].clicks[2].index = 0 - 1
    /\ CellAt(Sheet, "clicks", 2, 4) = NumCell(Whole(1))
    /\ CellAt(Sheet, "clicks", 2, 5) = NumCell(Whole(5))
    /\ CellAt(Sheet, "clicks", 2, 6) = NumCell(Whole(2))
    /\ CellAt(Sheet, "clicks", 2, 7) = NumCell(Rat(7, 2))
    /\ Cardinality({ i \in EventWrites :
                       Sheet[i].sheet = "clicks" /\ Sheet[i].row = 2 }) = 2

\* the funnel events of a user, none when the list is left out
FunnelsOf(u) ==
    IF users[u].funnels.t = "array" THEN users[u].funnels.list ELSE << >>

\* C31: for every user of a niq project Total Conversion Rate is the number
\* of the user's funnel events with conversion 1, those of index -1 included,
\* divided by the number of the user's funnel events, and 0 without funnel
\* events; the conversion value of an event is written at its indexed column
\* exactly when its index is not -1.
C31_ConversionRate ==
    (pc = "writeFile" /\ startsWithNiq(config.idProject)) =>
        \A u \in 1..Len(users) :
            LET row == u + 1
                fs == FunnelsOf(u)
                converted == { j \in 1..Len(fs) : fs[j].conversion = 1 }
                indexed == { j \in 1..Len(fs) : fs[j].index # 0 - 1 }
                onRow == { i \in EventWrites :
                             Sheet[i].sheet = "funnel" /\ Sheet[i].row = row }
            IN  /\ \E q \in {CellAt(Sheet, "funnel", row,
                                    BaseColumn("funnel", "Total Conversion Rate"))} :
                      /\ q.k = "number"
                      /\ IF fs = << >> THEN q.v = Whole(0)
                         ELSE q.v.n * Len(fs) = Cardinality(converted) * q.v.d
                /\ Cardinality(onRow) = Cardinality(indexed)
                /\ \A j \in indexed :
                     \E i \in onRow :
                        /\ Sheet[i].col = getColumnIndex(fs[j].index - 1,
                                                         SectionColumns("funnel"), 0)
                        /\ Sheet[i].v = NumCell(Whole(fs[j].conversion))

\* a niq user with a converted funnel event of product 1 followed by an event
\* of index -1 that did not convert: rate 1/2 and one indexed cell
C31_Witness ==
    /\ pc = "writeFile"
    /\ startsWithNiq(config.idProject)
    /\ Len(users) >= 1
    /\ Len(FunnelsOf(1)) = 2
    /\ FunnelsOf(1)[2] = FunnelEvent(0 - 1, 0)
    /\ CellAt(Sheet, "funnel", 2, 4) = NumCell(Rat(1, 2))
    /\ CellAt(Sheet, "funnel", 2, 5) = NumCell(Whole(1))
    /\ Cardinality({ i \in EventWrites :
                       Sheet[i].sheet = "funnel" /\ Sheet[i].row = 2 }) = 1

\* C37: every indexed value written for a user lands in the user's own row
\* (user position + 2, counted from 0) and in a column within
\* firstIndexedColumn..totalColumns of its sheet, so no event write touches
\* an identity column, a base total column or the row of another user; the
\* events of the runs carry an index in 1..productCount, or -1 where the
\* event type allows it.
C37_EventWritesInRegion ==
    \A i \in EventWrites :
        /\ Sheet[i].sheet \in SectionSheets
        /\ Sheet[i].row = Sheet[i].row2
        /\ Sheet[i].col = Sheet[i].col2
        /\ Sheet[i].row \in 2..(Len(users) + 1)
        /\ Sheet[i].col >= SectionColumns(Sheet[i].sheet).fxc
        /\ Sheet[i].col <= SectionColumns(Sheet[i].sheet).tc
        /\ \E u \in 1..Len(users) :
              /\ Sheet[i].row = u + 1
              /\ \/ /\ Sheet[i].sheet = "sales"
                    /\ \E j \in 1..Len(users[u].sales) :
                          users[u].sales[j].index - 1 = Sheet[i].src.p
                 \/ /\ Sheet[i].sheet = "clicks"
                    /\ \E j \in 1..Len(users[u].clicks) :
                          users[u].clicks[j].index - 1 = Sheet[i].src.p
                 \/ /\ Sheet[i].sheet = "views"
                    /\ \E j \in 1..Len(users[u].views) :
                          users[u].views[j].index - 1 = Sheet[i].src.p
                 \/ /\ Sheet[i].sheet = "funnel"
                    /\ \E j \in 1..Len(FunnelsOf(u)) :
                          FunnelsOf(u)[j].index - 1 = Sheet[i].src.p
                 \/ /\ Sheet[i].sheet = "nonPurchase"
                    /\ users[u].notPurchased.t = "array"
                    /\ \E j \in 1..Len(users[u].notPurchased.list) :
                          users[u].notPurchased.list[j].index - 1 = Sheet[i].src.p

\* a priced niq run of two products and two users whose second user has events
\* of the last product on the last columns of Sales and NotPurchased, in row 3
C37_Witness ==
    /\ pc = "writeFile"
    /\ startsWithNiq(config.idProject)
    /\ hasPrices(config) = JsTrue
    /\ Len(products) = 2
    /\ Len(users) = 2
    /\ \E i \in EventWrites :
          /\ Sheet[i].sheet = "nonPurchase"
          /\ Sheet[i].row = 3
          /\ Sheet[i].col = SectionColumns("nonPurchase").tc
    /\ \E i \in EventWrites :
          /\ Sheet[i].sheet = "sales"
          /\ Sheet[i].row = 2
          /\ Sheet[i].col = SectionColumns("sales").fxc

\* the writes made for one user: identity, base totals and event values
UserWrites ==
    { i \in 1..Len(Sheet) : Sheet[i].row >= 2 /\ Sheet[i].src.by # "prefill" }

\* C38: in Standard mode, on Sales, Clicks and Views, every zero pre-fill is
\* made before any per-user value is written, so no pre-fill zero overwrites
\* an event value: the cell of the last write made for an event still holds
\* what that write put there.
C38_PrefillBeforeValues ==
    ~config.largeDataSet =>
        /\ \A i \in 1..Len(Sheet), k \in UserWrites :
              (Sheet[i].src.by = "prefill"
                  /\ Sheet[i].sheet \in {"sales", "clicks", "views"}
                  /\ Sheet[k].sheet = Sheet[i].sheet) => i < k
        /\ \A k \in EventWrites :
              (/\ Sheet[k].sheet \in {"sales", "clicks", "views"}
               /\ ~ \E n \in UserWrites :
                       n > k /\ Covers(Sheet[n], Sheet[k].sheet,
                                       Sheet[k].row, Sheet[k].col))
                  => CellAt(Sheet, Sheet[k].sheet, Sheet[k].row, Sheet[k].col)
                         = Sheet[k].v

\* a Standard run at its end whose Views sheet holds an event value other
\* than 0 in a cell that was pre-filled
C38_Witness ==
    /\ pc = "writeFile"
    /\ ~config.largeDataSet
    /\ \E k \in EventWrites :
          /\ Sheet[k].sheet = "views"
          /\ Sheet[k].v # NumCell(Whole(0))
          /\ Prefills("views", Sheet[k].row, Sheet[k].col) # {}
          /\ CellAt(Sheet, "views", Sheet[k].row, Sheet[k].col) = Sheet[k].v

\* C39: after a proactive switch to LargeDataset mode the products
\* populator, the header generator, the value assigners and the file writer
\* all work on the workbook created by the switch; nothing is ever written to
\* the workbook that was discarded, and the file that is written and uploaded
\* is made of the new workbook's cells, all written in LargeDataset mode.
C39_OneWorkbookAfterProactiveSwitch ==
    proactive =>
        /\ managerWb = Len(workbooks)
        /\ populatorWb = managerWb
        /\ headersWb = managerWb
        /\ \A w \in 1..Len(workbooks) :
              w # managerWb => workbooks[w].items = {}
        /\ pc \in {"writeFile", "upload", "finish"} =>
              \E i \in workbooks[managerWb].items :
                  i.sheet \in ScvSheets /\ i.kind = "header"
        /\ \A f \in {localFile, uploaded} :
              f.exists =>
                  /\ f.wb = managerWb
                  /\ f.items = workbooks[managerWb].items
                  /\ \A i \in f.items : i.large

\* a run that switched proactively and uploaded the second workbook, with the
\* Products List and the headers in it
C39_Witness ==
    /\ pc = "done"
    /\ proactive
    /\ outcome = "resolved"
    /\ Len(workbooks) = 2
    /\ uploaded.exists
    /\ uploaded.wb = 2
    /\ \E i \in uploaded.items : i.sheet = "products"
    /\ \E i \in uploaded.items : i.sheet = "sales" /\ i.kind = "header"

-----------------------------------------------------------------------------
(* Runs whose product records carry an idProject of their own *)

MaxPartnerUsers == 1    \* largest number of user records of such a run

\* the products document is read as it is: nothing compares the idProject of
\* its records with the idProject of the request
InitPartners ==
    \E idProject \in IdProjects, productIdProject \in IdProjects,
       o \in SheetOptions, n \in 1..MaxSheetProducts :
      \E us \in SheetUsers(n) :
        /\ Len(us) <= MaxPartnerUsers
        /\ SheetRunOf(idProject, SheetProducts(productIdProject, n), o, us)

SpecPartners == InitPartners /\ [][NextSheets]_vars

BaseTotals ==
    {"Total Items Purchased", "Total Basket Items", "Avg Basket Price",
     "Avg Products Purchased", "Total Spend", "Avg Interactions Per Product"}

\* C36: each sales and clicks base total is written in the column whose
\* row-1 header names it, whatever idProject the product records carry, and
\* the partner variant that lays out the headers is the one of the sheet set:
\* the workbook has the Funnel sheet exactly when the headers have the niq
\* base columns.
C36_TotalsUnderTheirHeaders ==
    /\ \A i \in 1..Len(Sheet) :
          (Sheet[i].src.by = "total" /\ Sheet[i].src.name \in BaseTotals) =>
              CellAt(Sheet, Sheet[i].sheet, 1, Sheet[i].col)
                  = StrCell(Text(Sheet[i].src.name))
    /\ HeadersWritten("clicks") =>
          (("funnel" \in workbooks[managerWb].sheets)
              <=> CellAt(Sheet, "clicks", 1, Len(CommonHeads) + 4)
                      = StrCell(Text("Avg Interactions Per Product")))

-----------------------------------------------------------------------------
(* The factory createExcelReportService *)

\* before the factory has returned there is no configuration and no workbook
NoConfig == [none |-> TRUE]

\* !idProject, for an idProject that is missing or a string
Falsy(v) == v.t = "undefined" \/ v.s = << >>

RequiredError == Err("idProject is required", "ReportConfiguration", 0)

\* what createExcelReportService leaves alone
createFrame == << managerWb, populatorWb, headersWb, options, s3, tempFiles,
                  localFile, uploaded, retryAttempt, products, users, outcome,
                  error, caught, attempts, thrown, proactive, arg, jobVars >>

createExcelReportServiceMutOnlyMissing ==
    /\ pc = "create"
    /\ IF arg.idProject.t = "undefined"
       THEN /\ ret' = RequiredError
            /\ pc' = "threw"
            /\ UNCHANGED << config, workbooks >>
       ELSE /\ config' = NewReportConfiguration(arg.idProject.s, options)
            /\ workbooks' =
                 << NewWorksheetManager(
                        NewReportConfiguration(arg.idProject.s, options)) >>
            /\ ret' = JsUndefined
            /\ pc' = "loop"
    /\ UNCHANGED createFrame

\* createExcelReportService(idProject, options): new ReportConfiguration
\* throws 'idProject is required' for a falsy idProject, before anything of
\* the service is constructed; otherwise the service is built on the
\* configuration and generateReport can be called
createExcelReportService ==
    /\ pc = "create"
    /\ IF Falsy(arg.idProject)
       THEN /\ ret' = RequiredError
            /\ pc' = "threw"
            /\ UNCHANGED << config, workbooks >>
       ELSE /\ config' = NewReportConfiguration(arg.idProject.s, options)
            /\ workbooks' =
                 << NewWorksheetManager(
                        NewReportConfiguration(arg.idProject.s, options)) >>
            /\ ret' = JsUndefined
            /\ pc' = "loop"
    /\ UNCHANGED createFrame

\* the project identifiers given to the factory: none, '' or an identifier
FactoryIds == {Undefined, Str(<< >>)} \cup {Str(id) : id \in IdProjects}

\* no service exists yet: the event or the request is a, its options are o,
\* and the bucket is b
NoServiceFor(a, o, b) ==
    /\ arg = a
    /\ options = o
    /\ config = NoConfig
    /\ s3 = b
    /\ workbooks = << >>
    /\ managerWb = 1
    /\ populatorWb = 1
    /\ headersWb = 1
    /\ tempFiles = {}
    /\ localFile = NoFile
    /\ uploaded = NoFile
    /\ retryAttempt = 0
    /\ products = << >>
    /\ users = 0
    /\ outcome = "running"
    /\ error = NoError
    /\ caught = NoError
    /\ attempts = 0
    /\ thrown = << >>
    /\ proactive = FALSE
    /\ ret = JsUndefined

\* no service exists yet: the factory will be called with the id and the
\* options o, and the bucket is b
NoService(id, o, b) == NoServiceFor([idProject |-> id], o, b)

\* the factory is about to be called, outside any job
BeforeCreate(id, o, b) ==
    /\ NoService(id, o, b)
    /\ pc = "create"
    /\ IdleJobs

InitCreate ==
    \E id \in FactoryIds, o \in RunOptions :
      \E b \in Buckets(IF Falsy(id) THEN AcmeProject ELSE id.s) :
        BeforeCreate(id, o, b)

NextCreate == createExcelReportService \/ Next

SpecCreate == InitCreate /\ [][NextCreate]_vars

\* C23: when the factory is called with a missing or empty project
\* identifier it throws 'idProject is required' and that is all that ever
\* happens: no configuration and no workbook exists, no attempt of
\* generateReport starts, no document is fetched, nothing is thrown or caught
\* by the retry loop.
C23_IdProjectRequired ==
    (Falsy(arg.idProject) /\ pc # "create") =>
        /\ pc = "threw"
        /\ ret = RequiredError
        /\ config = NoConfig
        /\ workbooks = << >>
        /\ attempts = 0
        /\ retryAttempt = 0
        /\ products = << >>
        /\ users = 0
        /\ thrown = << >>
        /\ outcome = "running"

\* the factory was called with the empty string and has thrown
C23_Witness ==
    /\ arg.idProject = Str(<< >>)
    /\ pc = "threw"
    /\ ret = RequiredError
    /\ config = NoConfig

\* the option values of a request: every subset of the seven options is
\* given; the booleans given are all b, the thresholds th and price (percent)
RequestThresholds == {0, 5}
RequestPrices == {0, 50, 100, 125}

RequestOptions ==
    { [ OptionsWith(present, b, b, th, price, b)
          EXCEPT !.isAoi = IF "isAoi" \in present THEN b ELSE FALSE,
                 !.isFinal = IF "isFinal" \in present THEN b ELSE FALSE ] :
        present \in SUBSET {"largeDataSet", "isAoi", "isFinal", "hasFindability",
                            "largeDatasetThreshold", "priceThreshold",
                            "hasPrices"},
        b \in BOOLEAN, th \in RequestThresholds, price \in RequestPrices }

\* the checks validateInput makes on the options of a request whose values
\* have the types of the model: priceThreshold lies in [0, 1]
validOptions(o) ==
    Has(o, "priceThreshold") => (o.priceThreshold >= 0 /\ o.priceThreshold <= 100)

InitOptions ==
    \E id \in FactoryIds, o \in RequestOptions :
      \E b \in Buckets(AcmeProject) :
        /\ b.products.status = "missing"
        /\ b.scv.status = "missing"
        /\ b.findability.status = "missing"
        /\ BeforeCreate(id, o, b)

NextOptions == createExcelReportService

SpecOptions == InitOptions /\ [][NextOptions]_vars

\* C24: the configuration built from options validateInput accepts uses
\* every value given and the default of every option left out: largeDataSet
\* false, isAoi false, isFinal true, hasFindability true,
\* largeDatasetThreshold 1000000, priceThreshold 0.5, hasPrices not set.
C24_OptionsUsedAsGiven ==
    (pc = "loop" /\ validOptions(options)) =>
        /\ config.largeDataSet =
             IF Has(options, "largeDataSet") THEN options.largeDataSet ELSE FALSE
        /\ config.isAoi = IF Has(options, "isAoi") THEN options.isAoi ELSE FALSE
        /\ config.isFinal =
             IF Has(options, "isFinal") THEN options.isFinal ELSE TRUE
        /\ config.hasFindability =
             IF Has(options, "hasFindability") THEN options.hasFindability
             ELSE TRUE
        /\ config.largeDatasetThreshold =
             IF Has(options, "largeDatasetThreshold")
             THEN options.largeDatasetThreshold ELSE DefaultLargeDatasetThreshold
        /\ config.priceThreshold =
             IF Has(options, "priceThreshold")
             THEN options.priceThreshold ELSE DefaultPriceThreshold
        /\ hasPrices(config) =
             IF Has(options, "hasPrices") THEN JsBool(options.hasPrices)
             ELSE JsUndefined

-----------------------------------------------------------------------------
(* DynamoJobService: the jobs table and the sequence counters *)

\* result.filename, result.s3Key and result.downloadUrl of a main record
JobResult(filename, s3Key, downloadUrl) ==
    [filename |-> filename, s3Key |-> s3Key, downloadUrl |-> downloadUrl]

NoResult == JobResult(<< >>, << >>, NoFile)

\* error.message and error.type of a main record
JobError(e) == [message |-> e, type |-> e.name]

\* an item of the table: the main record of a job or one of its progress log
\* entries (a log entry has no status); a new item has no result and no error
TableItem(recordType, jobId, sequenceNumber, status, prog, stepName) ==
    [recordType |-> recordType, jobId |-> jobId,
     sequenceNumber |-> sequenceNumber, status |-> status, progress |-> prog,
     stepName |-> stepName, result |-> NoResult, error |-> JobError(NoError)]

\* Math.min(100, Math.max(0, progress))
Clamp(prog) == IF prog < 0 THEN 0 ELSE IF prog > 100 THEN 100 ELSE prog

\* what DynamoDB answers to a command
Answers == {"ok", "throws"}

\* this.sequenceCounters.has / get / set / delete
CounterHas(m, jobId) == \E e \in m : e.key = jobId
CounterGet(m, jobId) == (CHOOSE e \in m : e.key = jobId).value
CounterSet(m, jobId, v) ==
    {e \in m : e.key # jobId} \cup {[key |-> jobId, value |-> v]}
CounterDelete(m, jobId) == {e \in m : e.key # jobId}

\* if (!this.sequenceCounters.has(jobId)) set(jobId, 1)
\* else set(jobId, get(jobId) + 1)
nextSequence(m, jobId) ==
    IF ~CounterHas(m, jobId) THEN CounterSet(m, jobId, 1)
    ELSE CounterSet(m, jobId, CounterGet(m, jobId) + 1)

\* the Put of createJob: the main record, pending, progress 0, sequence 0
createJob(t, jobId) ==
    Append(t, TableItem("main_job", jobId, 0, "pending", 0, "initializing"))

\* getJob(jobId) when the scan answers: the position of the first main record
\* of the job, 0 for null
getJob(t, jobId) ==
    LET found == {i \in 1..Len(t) :
                     t[i].jobId = jobId /\ t[i].recordType = "main_job"}
    IN  IF found = {} THEN 0
        ELSE CHOOSE i \in found : \A k \in found : i <= k

\* the state of the service and its table, and whether the call threw
JobState(t, m, l, threw) ==
    [table |-> t, counters |-> m, logged |-> l, threw |-> threw]

\* createProgressLogEntry(jobId, progress, stepName, ..., sequenceNumber): the
\* Put is inside a try whose catch only logs
createProgressLogEntry(st, jobId, prog, stepName, sequenceNumber, put) ==
    JobState(IF put = "ok"
             THEN Append(st.table,
                         TableItem("progress_log", jobId, sequenceNumber, "",
                              Clamp(prog), stepName))
             ELSE st.table,
             st.counters,
             Append(st.logged, [sequenceNumber |-> sequenceNumber,
                                stepName |-> stepName, put |-> put]),
             FALSE)

updateJobProgressMutRethrow(st, jobId, prog, stepName, scan, update, put) ==
    IF scan = "throws" THEN [st EXCEPT !.threw = TRUE]
    ELSE IF getJob(st.table, jobId) # 0 /\ update = "throws"
    THEN [st EXCEPT !.threw = TRUE]
    ELSE LET job == getJob(st.table, jobId)
             t1 == IF job = 0 THEN st.table
                   ELSE [st.table EXCEPT ![job].progress = Clamp(prog),
                                         ![job].stepName = stepName]
             m1 == nextSequence(st.counters, jobId)
         IN  createProgressLogEntry(JobState(t1, m1, st.logged, FALSE), jobId,
                                    prog, stepName, CounterGet(m1, jobId), put)

\* updateJobProgress(jobId, progress, stepName): the whole body is in a try
\* whose catch only logs; scan, update and put are what DynamoDB answers to
\* the Scan of getJob, to the Update of the main record and to the Put of the
\* log entry
updateJobProgress(st, jobId, prog, stepName, scan, update, put) ==
    IF scan = "throws" THEN [st EXCEPT !.threw = FALSE]
    ELSE IF getJob(st.table, jobId) # 0 /\ update = "throws"
    THEN [st EXCEPT !.threw = FALSE]
    ELSE LET job == getJob(st.table, jobId)
             t1 == IF job = 0 THEN st.table
                   ELSE [st.table EXCEPT ![job].progress = Clamp(prog),
                                         ![job].stepName = stepName]
             m1 == nextSequence(st.counters, jobId)
         IN  createProgressLogEntry(JobState(t1, m1, st.logged, FALSE), jobId,
                                    prog, stepName, CounterGet(m1, jobId), put)

\* SET #status = :status and, for every entry of additionalData other than
\* status, <key> = <value>
SetAttributes(item, status, data) ==
    [f \in DOMAIN item |->
        IF f = "status" THEN status
        ELSE IF f \in DOMAIN data THEN data[f]
        ELSE item[f]]

updateJobStatusMutStatusOnly(st, jobId, status, data, scan, update) ==
    IF scan = "throws" \/ getJob(st.table, jobId) = 0 \/ update = "throws"
    THEN [st EXCEPT !.threw = TRUE]
    ELSE LET job == getJob(st.table, jobId)
         IN  [st EXCEPT !.threw = FALSE,
                        !.table = [st.table EXCEPT ![job].status = status]]

\* updateJobStatus(jobId, status, additionalData): throws when the scan fails,
\* when the job has no main record and when the Update fails
updateJobStatus(st, jobId, status, data, scan, update) ==
    IF scan = "throws" \/ getJob(st.table, jobId) = 0 \/ update = "throws"
    THEN [st EXCEPT !.threw = TRUE]
    ELSE LET job == getJob(st.table, jobId)
         IN  [st EXCEPT !.threw = FALSE,
                        !.table = [st.table EXCEPT
                                      ![job] = SetAttributes(@, status, data)]]

\* the last steps of completeJob and failJob: take the next sequence number,
\* write the final log entry, forget the counter
finalEntry(st, jobId, prog, stepName, put) ==
    LET m1 == nextSequence(st.counters, jobId)
        r == createProgressLogEntry([st EXCEPT !.counters = m1], jobId, prog,
                                    stepName, CounterGet(m1, jobId), put)
    IN  [r EXCEPT !.counters = CounterDelete(r.counters, jobId)]

completeJobMutLogFatal(st, jobId, result, scan, update, put) ==
    LET r == updateJobStatus(st, jobId, "completed",
                             [progress |-> 100,
                              result |-> JobResult(result.filename, result.s3Key,
                                                   result.signedUrl),
                              stepName |-> "completed"],
                             scan, update)
    IN  IF r.threw THEN r
        ELSE [finalEntry(r, jobId, 100, "completed", put)
                 EXCEPT !.threw = (put = "throws")]

\* completeJob(jobId, result): the main record gets status completed, progress
\* 100, the result and the step name; a failure of updateJobStatus is
\* rethrown before the counter is touched
completeJob(st, jobId, result, scan, update, put) ==
    LET r == updateJobStatus(st, jobId, "completed",
                             [progress |-> 100,
                              result |-> JobResult(result.filename, result.s3Key,
                                                   result.signedUrl),
                              stepName |-> "completed"],
                             scan, update)
    IN  IF r.threw THEN r
        ELSE finalEntry(r, jobId, 100, "completed", put)

failJobMutNoIncrement(st, jobId, err, scan, update, put) ==
    LET r == updateJobStatus(st, jobId, "failed", [error |-> JobError(err)],
                             scan, update)
        m1 == IF CounterHas(st.counters, jobId) THEN st.counters
              ELSE CounterSet(st.counters, jobId, 1)
        e == createProgressLogEntry([r EXCEPT !.threw = FALSE, !.counters = m1],
                                    jobId, 0, "failed", CounterGet(m1, jobId),
                                    put)
    IN  [e EXCEPT !.counters = CounterDelete(e.counters, jobId)]

\* failJob(jobId, error), progress = null: a failure of updateJobStatus is
\* logged and the final log entry is written all the same; the Update sets the
\* status (and the error), not the progress or the step name
failJob(st, jobId, err, scan, update, put) ==
    LET r == updateJobStatus(st, jobId, "failed", [error |-> JobError(err)],
                             scan, update)
    IN  finalEntry([r EXCEPT !.threw = FALSE], jobId, 0, "failed", put)

-----------------------------------------------------------------------------
(* processReportAsync: one processing of a job *)

\* the jobId of the processReport event
JobId == "job-1"

\* what the Lambda returns
Response(statusCode, jobId, status) ==
    [statusCode |-> statusCode, jobId |-> jobId, status |-> status]

\* { statusCode: 200, body: 'Async processing completed' }
ProcessingCompleted == Response(200, "", "")

\* what the job steps of processReportAsync leave alone
jobFrame == << config, managerWb, populatorWb, headersWb, options, s3,
               workbooks, tempFiles, localFile, uploaded, retryAttempt,
               products, users, outcome, error, caught, attempts, thrown,
               proactive, arg, invoked, progress, functionName >>

\* the DynamoJobService of this processing and the table
CurrentJob == JobState(table, sequenceCounters, logged, FALSE)

Becomes(r) ==
    /\ table' = r.table
    /\ sequenceCounters' = r.counters
    /\ logged' = r.logged

\* await jobService.updateJobProgress(jobId, 10, 'starting', { idProject }):
\* the service is created next unless the call throws; store is what the job
\* store may answer to a command
ReportStartingOn(store) ==
    /\ pc = "processReport"
    /\ \E scan \in store, update \in store, put \in store :
         LET r == updateJobProgress(CurrentJob, JobId, 10, "starting", scan,
                                    update, put)
         IN  /\ Becomes(r)
             /\ pc' = IF r.threw THEN "failJob" ELSE "create"
    /\ UNCHANGED << ret, jobFrame >>

ReportStarting == ReportStartingOn(Answers)

\* what generateReport resolved with: { success: true, filename, s3Key,
\* signedUrl, ... }; the file name and the key are made of the idProject, the
\* URL is that of the uploaded object
ReportResult ==
    [success |-> TRUE, filename |-> config.idProject,
     s3Key |-> << "report", "output" >> \o config.idProject,
     signedUrl |-> uploaded]

\* what updateJobStatus throws inside completeJob
StatusUpdateError == Err("Error", "updateJobStatus", 0)

\* generateReport resolved: await jobService.completeJob(jobId, { ...result,
\* processingTime, idProject }); when it throws the catch of
\* processReportAsync takes over
ReportCompletedOn(store) ==
    /\ pc = "done"
    /\ outcome = "resolved"
    /\ \E scan \in store, update \in store, put \in store :
         LET r == completeJob(CurrentJob, JobId, ReportResult, scan, update,
                              put)
         IN  /\ Becomes(r)
             /\ pc' = IF r.threw THEN "failJob" ELSE "processed"
             /\ ret' = IF r.threw THEN ret ELSE ProcessingCompleted
    /\ UNCHANGED jobFrame

ReportCompleted == ReportCompletedOn(Answers)

\* the error the catch of processReportAsync holds: what the factory threw,
\* what generateReport rejected with, or what completeJob threw
CaughtError ==
    IF pc = "threw" THEN RequiredError
    ELSE IF pc = "done" THEN error
    ELSE StatusUpdateError

\* catch (error) of processReportAsync: await jobService.failJob(jobId, error)
ReportFailedOn(store) ==
    /\ \/ pc \in {"threw", "failJob"}
       \/ pc = "done" /\ outcome = "rejected"
    /\ \E scan \in store, update \in store, put \in store :
         Becomes(failJob(CurrentJob, JobId, CaughtError, scan, update, put))
    /\ pc' = "processed"
    /\ ret' = ProcessingCompleted
    /\ UNCHANGED jobFrame

ReportFailed == ReportFailedOn(Answers)

\* the options of the processReport event
JobOptions == NoOptions

MaxJobItems == 1        \* most products and most user records of a processed job

\* the buckets of the processed jobs: products of price "5"
JobBuckets(idProject) ==
    [ products : Docs({ [i \in 1..n |-> Product(idProject, Five)] :
                          n \in 0..MaxJobItems }, << >>),
      scv : Docs(0..MaxJobItems, 0),
      findability : {[status |-> st, body |-> 0] : st \in {"ok", "missing"}} ]

\* a processReport event arrives for JobId; the job has its main record, as
\* createJob wrote it, or has none
InitJobs ==
    \E id \in FactoryIds, t \in {<< >>, createJob(<< >>, JobId)} :
      \E b \in JobBuckets(IF Falsy(id) THEN AcmeProject ELSE id.s) :
        /\ NoService(id, JobOptions, b)
        /\ pc = "processReport"
        /\ table = t
        /\ sequenceCounters = NoCounters
        /\ invoked = << >>
        /\ progress = << >>
        /\ logged = << >>
        /\ functionName = TRUE

NextJobs ==
    \/ ReportStarting
    \/ createExcelReportService
    \/ Next
    \/ ReportCompleted
    \/ ReportFailed

SpecJobs == InitJobs /\ [][NextJobs]_vars

-----------------------------------------------------------------------------
(* Claims about the job tracking, checked under SpecJobs *)

\* the main record of the job, when it has one
MainRecord == table[getJob(table, JobId)]

\* C22: a failure while the progress update is recorded (the read of the main
\* record, its update, the write of the log entry) stays inside
\* updateJobProgress: whatever DynamoDB answers, the step after the 'starting'
\* update is the creation of the report service, with nothing of the run
\* touched; the catch of processReportAsync is entered from a job step only
\* when completeJob threw after generateReport resolved.
C22_ProgressFailureAbsorbed ==
    /\ [][pc = "processReport" =>
            /\ pc' = "create"
            /\ UNCHANGED << outcome, error, caught, ret >>]_vars
    /\ [](pc = "failJob" => outcome = "resolved")

\* the 'starting' update failed before it took a sequence number (the scan or
\* the update threw) and the job was completed all the same: the only log
\* entry is the final one
C22_Witness ==
    /\ pc = "processed"
    /\ getJob(table, JobId) # 0
    /\ MainRecord.status = "completed"
    /\ MainRecord.stepName = "completed"
    /\ logged = << [sequenceNumber |-> 1, stepName |-> "completed",
                    put |-> "ok"] >>

\* the progress log entries of the job in the table, in the order they were put
LogEntries ==
    LET IsLog(e) == e.recordType = "progress_log" /\ e.jobId = JobId
    IN  SelectSeq(table, IsLog)

FinalSteps == {"completed", "failed"}

\* C26: within one processing the main record has sequence number 0, the
\* log entries are numbered 1, 2, 3, ... in the order the updates are made,
\* each by one more than the one before and none twice, and the final
\* 'completed' or 'failed' entry carries the highest number.
C26_SequenceNumbers ==
    /\ \A i \in 1..Len(table) :
         table[i].recordType = "main_job" => table[i].sequenceNumber = 0
    /\ \A i \in 1..Len(logged) : logged[i].sequenceNumber = i
    /\ \A i \in 1..Len(LogEntries) :
         /\ LogEntries[i].sequenceNumber \in 1..Len(logged)
         /\ logged[LogEntries[i].sequenceNumber].put = "ok"
         /\ logged[LogEntries[i].sequenceNumber].stepName = LogEntries[i].stepName
         /\ \A k \in 1..(i - 1) :
              LogEntries[k].sequenceNumber < LogEntries[i].sequenceNumber
    /\ \A i \in 1..Len(logged) :
         logged[i].stepName \in FinalSteps <=> (pc = "processed" /\ i = Len(logged))

\* a processing that recorded the 'starting' update and completed: the table
\* holds the records 0, 1 and 2, the last one the 'completed' entry
C26_Witness ==
    /\ pc = "processed"
    /\ Len(table) = 3
    /\ table[1].recordType = "main_job"
    /\ table[1].sequenceNumber = 0
    /\ table[1].status = "completed"
    /\ table[2].stepName = "starting"
    /\ table[2].sequenceNumber = 1
    /\ table[3].stepName = "completed"
    /\ table[3].sequenceNumber = 2

\* the step is a call of failJob: it writes the final 'failed' log entry
FailJobCalled ==
    /\ Len(logged') = Len(logged) + 1
    /\ logged'[Len(logged')].stepName = "failed"

\* the main record of the job has the status completed
Completed == getJob(table, JobId) # 0 /\ MainRecord.status = "completed"

\* C34 as stated: once the main record has the status completed it never gets
\* the status failed, and failJob is called only when generateReport rejected
\* or when completeJob threw with the completion update not applied.
C34_FailedOnlyAfterRejection ==
    /\ [][Completed => Completed']_vars
    /\ [][FailJobCalled =>
            \/ outcome = "rejected"
            \/ pc = "failJob" /\ outcome = "resolved" /\ ~Completed]_vars

\* C34, amended: failJob is also called when createExcelReportService threw,
\* before generateReport was called.
C34_CompletedNeverFailed ==
    /\ [][Completed => Completed']_vars
    /\ [][FailJobCalled =>
            \/ outcome = "rejected"
            \/ pc = "failJob" /\ outcome = "resolved" /\ ~Completed
            \/ pc = "threw" /\ outcome = "running" /\ ~Completed]_vars

\* generateReport resolved, the completion update was refused and the job was
\* marked failed
C34_Witness ==
    /\ pc = "processed"
    /\ outcome = "resolved"
    /\ getJob(table, JobId) # 0
    /\ MainRecord.status = "failed"
    /\ MainRecord.error = JobError(StatusUpdateError)
    /\ logged[Len(logged)].stepName = "failed"

-----------------------------------------------------------------------------
(* A processing whose job store accepts every read and every write *)

Accepting == {"ok"}

\* the job has its main record, as createJob wrote it
InitJobsLive ==
    /\ InitJobs
    /\ getJob(table, JobId) # 0

NextJobsLive ==
    \/ ReportStartingOn(Accepting)
    \/ createExcelReportService
    \/ Next
    \/ ReportCompletedOn(Accepting)
    \/ ReportFailedOn(Accepting)

\* the Lambda runtime runs the invocation until processReportAsync returns:
\* every await of it is resumed, and generateReport makes at most
\* MaxRetries + 1 attempts
SpecJobsLive ==
    InitJobsLive /\ [][NextJobsLive]_vars /\ WF_vars(NextJobsLive)

\* the main record of the job tells how generateReport ended
TerminalStatus ==
    /\ outcome = "resolved" =>
         /\ MainRecord.status = "completed"
         /\ MainRecord.progress = 100
         /\ uploaded.exists
         /\ MainRecord.result
                = JobResult(config.idProject,
                            << "report", "output" >> \o config.idProject,
                            uploaded)
         /\ MainRecord.error = JobError(NoError)
    /\ outcome = "rejected" =>
         /\ MainRecord.status = "failed"
         /\ error # NoError
         /\ MainRecord.error = JobError(error)
         /\ MainRecord.result = NoResult
    /\ outcome = "running" =>
         /\ MainRecord.status = "failed"
         /\ MainRecord.error = JobError(RequiredError)

-----------------------------------------------------------------------------
(* exports.handler: a report request from the API *)

\* module.exports of lambda-utils
LambdaUtilsExports == {"validateInput", "createResponse", "createErrorResponse"}

\* a body whose idProject is not a string
NotAString == [t |-> "number", s |-> << >>]

\* the idProject of a request body: left out, '', blank, a number or an
\* identifier
RequestIds == FactoryIds \cup {Str(<< " " >>), NotAString}

\* s.trim().length === 0
OnlySpaces(s) == \A i \in 1..Len(s) : s[i] = " "

\* what body.options holds besides the entries of the options of the model:
\* nothing, an entry whose key is not a valid option, or a valid key with a
\* value of the wrong type (isFinal: 'yes', largeDatasetThreshold: '5')
OtherEntries == {"none", "unknownKey", "wrongType"}

\* a request: event.body is a string that JSON.parse rejects, or it is (or
\* parses to) an object with idProject and options
Request(json, idProject, other) ==
    [json |-> json, idProject |-> idProject, other |-> other]

validateInputMutOptionsUnchecked(body, o) ==
    /\ ~Falsy(body.idProject)
    /\ body.idProject.t = "string"
    /\ ~OnlySpaces(body.idProject.s)

\* validateInput(body).isValid, for a body that is an object: the idProject
\* is a string that is not blank, every key of the options is a valid option
\* and every value has the type and the range of its option
validateInput(body, o) ==
    /\ ~Falsy(body.idProject)
    /\ body.idProject.t = "string"
    /\ ~OnlySpaces(body.idProject.s)
    /\ body.other = "none"
    /\ validOptions(o)

\* the payload of the asynchronous self-invocation
Payload(jobId, idProject, o) ==
    [action |-> "processReport", jobId |-> jobId, idProject |-> idProject,
     options |-> o]

\* what the handler leaves alone
handlerFrame == << config, managerWb, populatorWb, headersWb, options, s3,
                   workbooks, tempFiles, localFile, uploaded, retryAttempt,
                   products, users, outcome, error, caught, attempts, thrown,
                   proactive, arg, progress, functionName >>

\* the handler on a request that is not a processReport event: 400 when the
\* body is not JSON or not valid; then const jobId = generateJobId(), which lambda-utils
\* does not export, so the call throws a TypeError and the outer catch answers
\* 500; with the function exported (it would return JobId) the job is
\* created and, when the function name is set and the invoke call succeeds,
\* the processing is invoked and 202 returned; otherwise failJob and 500
handler ==
    /\ pc = "handler"
    /\ pc' = "responded"
    /\ IF ~arg.json \/ ~validateInput(arg, options)
       THEN /\ ret' = Response(400, "", "")
            /\ UNCHANGED jobVars
       ELSE IF "generateJobId" \notin LambdaUtilsExports
       THEN /\ ret' = Response(500, "", "")
            /\ UNCHANGED jobVars
       ELSE \E put \in Answers, invoke \in Answers :
              IF put = "throws"
              THEN /\ ret' = Response(500, "", "")
                   /\ UNCHANGED jobVars
              ELSE IF functionName /\ invoke = "ok"
              THEN /\ table' = createJob(table, JobId)
                   /\ invoked' = Append(invoked,
                                        Payload(JobId, arg.idProject, options))
                   /\ ret' = Response(202, JobId, "pending")
                   /\ UNCHANGED << sequenceCounters, progress, logged >>
              ELSE \E scan \in Answers, update \in Answers, log \in Answers :
                     /\ Becomes([failJob(JobState(createJob(table, JobId),
                                                  NoCounters, logged, FALSE),
                                         JobId, Err("Error", "invoke", 0),
                                         scan, update, log)
                                   EXCEPT !.counters = sequenceCounters])
                     /\ ret' = Response(500, JobId, "")
                     /\ UNCHANGED << invoked, progress >>
    /\ UNCHANGED handlerFrame

\* a request arrives; nothing is tracked yet; the function name is set or not
InitHandler ==
    \E id \in RequestIds, o \in RequestOptions, named \in BOOLEAN,
       json \in BOOLEAN, other \in OtherEntries :
      \E b \in Buckets(AcmeProject) :
        /\ b.products.status = "missing"
        /\ b.scv.status = "missing"
        /\ b.findability.status = "missing"
        /\ NoServiceFor(Request(json, id, other), o, b)
        /\ pc = "handler"
        /\ table = << >>
        /\ sequenceCounters = NoCounters
        /\ invoked = << >>
        /\ progress = << >>
        /\ logged = << >>
        /\ functionName = named

NextHandler == handler

SpecHandler == InitHandler /\ [][NextHandler]_vars

\* C25: for every request that passes validation the handler has created the
\* main record of the job, 'pending' with progress 0, has sent the
\* asynchronous processing invocation for that job, and answers 202 with the
\* job id and the status 'pending'.
C25_JobCreatedThenAccepted ==
    (pc = "responded" /\ arg.json /\ validateInput(arg, options)) =>
        /\ ret.statusCode = 202
        /\ ret.status = "pending"
        /\ getJob(table, ret.jobId) # 0
        /\ table[getJob(table, ret.jobId)].status = "pending"
        /\ table[getJob(table, ret.jobId)].progress = 0
        /\ \E i \in 1..Len(invoked) : invoked[i].jobId = ret.jobId

\* C32: when the asynchronous processing invocation cannot be started,
\* here because the function name is not configured, the handler has marked
\* the job it created as failed and answers 500 with the job id; it never
\* answers 202 for a job whose processing was not started.
C32_InvocationFailureMarksJobFailed ==
    /\ (pc = "responded" /\ arg.json /\ validateInput(arg, options)
           /\ ~functionName) =>
          /\ ret.statusCode = 500
          /\ ret.jobId # ""
          /\ getJob(table, ret.jobId) # 0
          /\ table[getJob(table, ret.jobId)].status = "failed"
          /\ invoked = << >>
    /\ (pc = "responded" /\ ret.statusCode = 202) =>
          \E i \in 1..Len(invoked) : invoked[i].jobId = ret.jobId

\* the request is one of those the claim lists
NotAccepted ==
    \/ ~arg.json
    \/ arg.idProject.t = "undefined"
    \/ arg.idProject.t # "string"
    \/ arg.idProject.s = << >>
    \/ OnlySpaces(arg.idProject.s)
    \/ arg.other \in {"unknownKey", "wrongType"}
    \/ Has(options, "priceThreshold")
         /\ (options.priceThreshold < 0 \/ options.priceThreshold > 100)

\* C35: a request whose body is not JSON, whose idProject is missing, not a
\* string or blank, or whose options hold an unknown key, a value of the
\* wrong type or a priceThreshold outside [0, 1] is answered 400, and the
\* job store is as it was: no record created, no log entry written, no
\* processing invoked.
C35_InvalidRequestLeavesNoTrace ==
    (pc = "responded" /\ NotAccepted) =>
        /\ ret.statusCode = 400
        /\ table = << >>
        /\ sequenceCounters = NoCounters
        /\ logged = << >>
        /\ invoked = << >>

\* a request with a good idProject and a priceThreshold of 1.25 was answered
\* 400
C35_Witness ==
    /\ pc = "responded"
    /\ arg.json
    /\ arg.idProject = Str(NiqProject)
    /\ arg.other = "none"
    /\ Has(options, "priceThreshold")
    /\ options.priceThreshold = 125
    /\ ret.statusCode = 400
    /\ table = << >>

====
